---------------------------- MODULE Spec2Model ----------------------------
(***************************************************************************)
(* Model of the CryptoSentiment MCP server's orchestration core:           *)
(*   - CacheManager (two tiers: Redis + in-process Map)                    *)
(*   - AnalyzeCryptoSentimentTool.execute and its helpers                  *)
(*   - NewsAggregator.fetchNews, PriceService.getMultiplePrices            *)
(*                                                                         *)
(* Strings that the code transforms (toLowerCase, sort, includes) are      *)
(* sequences of UTF-16 code units; strings the code only compares are TLA+ *)
(* strings.  Time is counted in clock ticks; a TTL is a number of ticks.   *)
(***************************************************************************)
EXTENDS Integers, Sequences, FiniteSets, TLC

VARIABLES
    \* ---- CacheManager (unnamed/part_004) ----
    useRedis,       \* CacheManager.useRedis
    connected,      \* CacheManager.connected
    memoryCache,    \* CacheManager.memoryCache : prefixed key -> CacheEntry
    redisStore,     \* contents of the Redis server : prefixed key -> CacheEntry
    now,            \* Date.now(), in ticks
    \* ---- one execute() call in progress (tools/analyze-crypto-sentiment.ts) ----
    pc,             \* position of the server: booting, idle, or inside execute
    args,           \* the raw arguments of the call
    validatedArgs,  \* AnalysisRequestSchema.parse(args)
    startTime,      \* const startTime = Date.now()
    newsItems,      \* result of newsAggregator.fetchNews
    priceData,      \* result of priceService.getMultiplePrices
    settled,        \* result of Promise.allSettled over the five stages
    thrown,         \* the error caught by execute's catch block
    cur,            \* bookkeeping of the call in progress
    calls,          \* completed calls, oldest first
    wsIn,           \* the WebSocket tools/call being served, if any
    wsOut,          \* messages sent on the WebSocket connection, oldest first
    \* ---- harnesses ----
    kA, kB, kOut,   \* generateCacheKey on two argument records
    pCalls,         \* completed direct getMultiplePrices calls
    cOps,           \* completed direct CacheManager operations
    nCalls,         \* completed direct fetchNews calls
    abandoned,      \* fetches a timer has beaten, running or settled
    fIn, fOut,      \* fuseSentiments on one list of signals
    sIn, sOut,      \* one stage's analyze on one input
    routed,         \* requests the HTTP and REST adapters have answered
    \* ---- WebSocketMcpProtocolHandler (protocols/websocket-mcp.ts) ----
    connections,    \* this.connections : connection id -> WebSocketConnection
    sockets,        \* the ws objects: readyState, and the peer behind each
    delivered,      \* messages handed to ws.send, per connection
    inflight,       \* handleMessage calls awaiting execute, per connection
    nextBeat,       \* when the heartbeat interval fires next
    \* ---- the processes around the tool ----
    runs,           \* execute() calls that overlap in time
    stdio,          \* the STDIO server (unnamed/part_005): its two output streams
    served,         \* the HTTP server (http-server.ts): its routes and answers
    gecko           \* completed fetchCoinGeckoPrices calls

cacheVars == <<useRedis, connected, memoryCache, redisStore, now>>
execVars  == <<pc, args, validatedArgs, startTime, newsItems, priceData,
               settled, thrown, cur, calls, wsIn, wsOut>>
wsVars    == <<wsIn, wsOut>>
keyVars   == <<kA, kB, kOut>>
raceVars  == <<nCalls, abandoned>>
fusionVars == <<fIn, fOut>>
stageVars == <<sIn, sOut>>
connVars  == <<connections, sockets, delivered, inflight, nextBeat>>
backVars  == <<runs, stdio, served, gecko>>
frontVars == <<sIn, sOut, routed, connections, sockets, delivered, inflight,
               nextBeat, runs, stdio, served, gecko>>
harnessVars == <<kA, kB, kOut, pCalls, cOps, nCalls, abandoned, fIn, fOut,
                 sIn, sOut, routed, connections, sockets, delivered, inflight,
                 nextBeat, runs, stdio, served, gecko>>
vars      == <<useRedis, connected, memoryCache, redisStore, now,
               pc, args, validatedArgs, startTime, newsItems, priceData,
               settled, thrown, cur, calls, wsIn, wsOut,
               kA, kB, kOut, pCalls, cOps, nCalls, abandoned, fIn, fOut,
               sIn, sOut, routed, connections, sockets, delivered, inflight,
               nextBeat, runs, stdio, served, gecko>>

---------------------------------------------------------------------------
(* Bounds of the model *)

MaxNow      == 2    \* the clock stops ticking here
MaxCalls    == 1    \* execute() calls per behaviour, all inputs varied
MaxRepeat   == 2    \* execute() calls per behaviour, repeated requests
MaxSrcItems == 1    \* items one news source can return
MaxOps      == 3    \* direct CacheManager operations per behaviour
MaxPCalls   == 2    \* direct getMultiplePrices calls per behaviour
MaxNCalls   == 2    \* direct fetchNews calls per behaviour
MaxCoins    == 2    \* coins in one getMultiplePrices call
MaxMock     == 1    \* getMultiplePrices calls answered with mock quotes
MaxWsCalls  == 1    \* tools/call requests on the WebSocket connection
MaxSignals  == 2    \* signals fused by one fuseSentiments call
MaxRace     == 2    \* fetchNews and getMultiplePrices calls racing their timers
MaxDegrade  == 2    \* execute() calls per behaviour, degraded and not
MaxConns    == 2    \* WebSocket connections per behaviour
MaxStdio    == 3    \* requests read by the STDIO server
MaxServed   == 2    \* requests answered by the HTTP server
MaxGecko    == 2    \* direct fetchCoinGeckoPrices calls per behaviour

\* TTLs, in ticks.  config.analysis.cacheAnalysisTtl, config.priceApi.cacheTtl
\* and the literal 600 of fetchNews, scaled to the model's clock.
AnalysisTtl == 1
PriceTtl    == 1
NewsTtl     == 1

Null  == "null"

\* an optional value: absent, or present with value v
None    == <<>>
Some(v) == <<v>>
IsSome(o) == Len(o) = 1
Get(o)  == o[1]
OrElse(o, d) == IF IsSome(o) THEN o[1] ELSE d

---------------------------------------------------------------------------
(* Strings as sequences of code units *)

Min(a, b) == IF a < b THEN a ELSE b
Max(a, b) == IF a > b THEN a ELSE b

\* String.prototype.toLowerCase on one ASCII code unit
LowerChar(c) == IF c >= 65 /\ c <= 90 THEN c + 32 ELSE c
\* String.prototype.toUpperCase on one ASCII code unit
UpperChar(c) == IF c >= 97 /\ c <= 122 THEN c - 32 ELSE c

toLowerCase(s) == [i \in 1..Len(s) |-> LowerChar(s[i])]
toUpperCase(s) == [i \in 1..Len(s) |-> UpperChar(s[i])]

\* s < t in the order of Array.prototype.sort's default comparator
\* (code-unit lexicographic order)
RECURSIVE StrLess(_, _)
StrLess(s, t) ==
    IF Len(t) = 0 THEN FALSE
    ELSE IF Len(s) = 0 THEN TRUE
    ELSE IF Head(s) < Head(t) THEN TRUE
    ELSE IF Head(s) > Head(t) THEN FALSE
    ELSE StrLess(Tail(s), Tail(t))

\* insert x into the sorted sequence q
RECURSIVE Insert(_, _)
Insert(x, q) ==
    IF Len(q) = 0 THEN <<x>>
    ELSE IF StrLess(Head(q), x) THEN <<Head(q)>> \o Insert(x, Tail(q))
    ELSE <<x>> \o q

\* Array.prototype.sort() with the default comparator
RECURSIVE sort(_)
sort(q) == IF Len(q) = 0 THEN <<>> ELSE Insert(Head(q), sort(Tail(q)))

\* String.prototype.includes
includes(s, t) ==
    \E i \in 0..(Len(s) - Len(t)) :
        \A j \in 1..Len(t) : s[i + j] = t[j]

\* .filter((x, i, self) => self.indexOf(x) === i)
RECURSIVE Dedup(_)
Dedup(q) ==
    IF Len(q) = 0 THEN <<>>
    ELSE LET r == Dedup(SubSeq(q, 1, Len(q) - 1))
             x == q[Len(q)]
         IN IF \E i \in 1..Len(r) : r[i] = x THEN r ELSE Append(r, x)

Range(q) == {q[i] : i \in 1..Len(q)}

---------------------------------------------------------------------------
(* CacheManager *)

Put(f, k, v) == [x \in (DOMAIN f) \cup {k} |-> IF x = k THEN v ELSE f[x]]
Remove(f, k) == [x \in (DOMAIN f) \ {k} |-> f[x]]
Empty == [x \in {} |-> Null]

\* CacheManager.getKey
getKey(key) == <<"prefix:", key>>

\* a variant of isExpiredAt under which no entry ever counts as expired
isExpiredNever(entry, t) == FALSE

\* CacheManager.isExpired, on an explicit clock value
isExpiredAt(entry, t) == t - entry.timestamp > entry.ttl

isExpired(entry) == isExpiredAt(entry, now)

\* the guard "this.useRedis && this.connected"
TryRedis == useRedis /\ connected

\* the outcomes a durable-tier operation can have: it can throw only when it
\* is attempted
Faults == IF TryRedis THEN {FALSE, TRUE} ELSE {FALSE}

\* a variant of OnOpError that marks the durable tier unusable on an error
OnOpErrorMarks(flag, fault) == flag /\ ~fault

\* what the catch blocks of get, set, del and flush do to a health flag when
\* the Redis operation threw: they log a warning and leave the flag alone
OnOpError(flag, fault) == flag

\* CacheManager.cleanupMemoryCache
cleanupMemoryCache(mem) ==
    [k \in {x \in DOMAIN mem : ~isExpired(mem[x])} |-> mem[k]]

CleanupEvery == 100

\* CacheManager.get: the value returned and the two tiers afterwards.
\* getFault: client.get throws; delFault: client.del of the expired entry throws.
CacheGet(mem, redis, key, getFault, delFault) ==
    LET ck        == getKey(key)
        inRedis   == TryRedis /\ ~getFault /\ ck \in DOMAIN redis
        redisHit  == inRedis /\ ~isExpired(redis[ck])
        redisOld  == inRedis /\ isExpired(redis[ck])
        inMem     == ~redisHit /\ ck \in DOMAIN mem
        memHit    == inMem /\ ~isExpired(mem[ck])
        memOld    == inMem /\ isExpired(mem[ck])
    IN  [ value |-> IF redisHit THEN redis[ck].data
                    ELSE IF memHit THEN mem[ck].data
                    ELSE Null,
          age   |-> IF redisHit THEN now - redis[ck].timestamp
                    ELSE IF memHit THEN now - mem[ck].timestamp
                    ELSE 0,
          ttl   |-> IF redisHit THEN redis[ck].ttl
                    ELSE IF memHit THEN mem[ck].ttl
                    ELSE 0,
          tier  |-> IF redisHit THEN "redis" ELSE IF memHit THEN "memory" ELSE "none",
          redis |-> IF redisOld /\ ~delFault THEN Remove(redis, ck) ELSE redis,
          mem   |-> IF memOld THEN Remove(mem, ck) ELSE mem,
          redisOld |-> redisOld,
          memOld   |-> memOld,
          redisRead |-> TryRedis /\ ~getFault,
          fault |-> TryRedis /\ (getFault \/ (redisOld /\ delFault)) ]

\* where CacheManager.set puts the entry
SetTier(setFault) == IF TryRedis /\ ~setFault THEN "redis" ELSE "memory"

\* a variant of CacheSet that stores nothing
CacheSetNowhere(mem, redis, key, value, ttlSeconds, setFault) ==
    [ redis |-> redis, mem |-> mem, fault |-> FALSE ]

\* CacheManager.set: the two tiers afterwards.  setFault: client.setEx throws.
CacheSet(mem, redis, key, value, ttlSeconds, setFault) ==
    LET ck    == getKey(key)
        entry == [data |-> value, timestamp |-> now, ttl |-> ttlSeconds]
        mem1  == Put(mem, ck, entry)
    IN  IF SetTier(setFault) = "redis"
        THEN [ redis |-> Put(redis, ck, entry), mem |-> mem,
               fault |-> FALSE ]
        ELSE [ redis |-> redis,
               mem   |-> IF Cardinality(DOMAIN mem1) % CleanupEvery = 0
                         THEN cleanupMemoryCache(mem1) ELSE mem1,
               fault |-> TryRedis /\ setFault ]

\* CacheManager.del
CacheDel(mem, redis, key, delFault) ==
    LET ck == getKey(key)
    IN  [ redis |-> IF TryRedis /\ ~delFault THEN Remove(redis, ck) ELSE redis,
          mem   |-> Remove(mem, ck),
          fault |-> TryRedis /\ delFault ]

\* CacheManager.flush
CacheFlush(mem, redis, flushFault) ==
    [ redis |-> IF TryRedis /\ ~flushFault THEN Empty ELSE redis,
      mem   |-> Empty,
      fault |-> TryRedis /\ flushFault ]

---------------------------------------------------------------------------
(* The tool's arguments: AnalysisRequestSchema and generateCacheKey *)

analysis_depths == {"quick", "standard", "deep"}
time_ranges     == {"1h", "6h", "12h", "24h"}

MinNewsItems        == 5
MaxNewsItems        == 50
DefaultMaxNewsItems == 15
DefaultDepth        == "standard"
DefaultTimeRange    == "6h"

\* a variant of ParseThrows that only insists on the presence of a query
ParseThrowsLax(a) == ~IsSome(a.query)

\* does AnalysisRequestSchema.parse(a) throw a ZodError
ParseThrows(a) ==
    \/ ~IsSome(a.query)
    \/ Len(Get(a.query)) < 1
    \/ IsSome(a.analysis_depth) /\ Get(a.analysis_depth) \notin analysis_depths
    \/ IsSome(a.max_news_items) /\ ( Get(a.max_news_items) < MinNewsItems
                                  \/ Get(a.max_news_items) > MaxNewsItems )
    \/ IsSome(a.time_range) /\ Get(a.time_range) \notin time_ranges

\* AnalysisRequestSchema.parse(a), when it does not throw: defaults applied
AnalysisRequestSchema(a) ==
    [ query          |-> Get(a.query),
      analysis_depth |-> OrElse(a.analysis_depth, DefaultDepth),
      max_news_items |-> OrElse(a.max_news_items, DefaultMaxNewsItems),
      time_range     |-> OrElse(a.time_range, DefaultTimeRange),
      include_prices |-> OrElse(a.include_prices, TRUE),
      focus_coins    |-> a.focus_coins,
      stream_updates |-> OrElse(a.stream_updates, FALSE) ]

\* a variant of keyData that takes the query and the coin list as they come
keyDataRaw(v) ==
    [ query         |-> v.query,
      depth         |-> v.analysis_depth,
      timeRange     |-> v.time_range,
      maxItems      |-> v.max_news_items,
      includePrices |-> v.include_prices,
      focusCoins    |-> v.focus_coins ]

\* the keyData object of generateCacheKey; JSON.stringify drops an undefined
\* focusCoins, which is the absent option here
keyData(v) ==
    [ query         |-> toLowerCase(v.query),
      depth         |-> v.analysis_depth,
      timeRange     |-> v.time_range,
      maxItems      |-> v.max_news_items,
      includePrices |-> v.include_prices,
      focusCoins    |-> IF IsSome(v.focus_coins)
                        THEN Some(sort(Get(v.focus_coins))) ELSE None ]

\* crypto.createHash('md5').update(JSON.stringify(keyData)).digest('hex'):
\* the digest is a function of the serialised keyData and nothing else
generateCacheKey(v) == <<"md5", keyData(v)>>

\* focus_coins after generateCacheKey: Array.prototype.sort sorts in place
focusCoinsAfterKey(v) ==
    IF IsSome(v.focus_coins) THEN Some(sort(Get(v.focus_coins))) ELSE None

\* symbols used by the model: "B", "E", and the lower-case spelling "b"
SymB == <<66>>
SymE == <<69>>
Symb == <<98>>

---------------------------------------------------------------------------
(* NewsAggregator.fetchNews *)

\* the coin lists execute's extractMentionedCoins can find in fetched items
\* (it never returns an empty list: BTC is added when no coin is found)
NewsCoinLists == { <<SymB>> }

\* the coins the mock templates mention
MockCoins == <<SymB, SymE>>

MockTemplates == 5

\* What one news source (the RSS feeds, the Reddit feeds) delivers: the number
\* of relevant items, or nothing at all because every feed of it failed.
\* fetchRssNews and fetchRedditNews catch per feed, so a source whose feeds
\* all fail delivers the empty list.
Unreachable == None
SrcOutcomes == {Unreachable} \cup {Some(n) : n \in 0..MaxSrcItems}

\* the cache key of fetchNews
NewsKey(query, timeRange, maxItems) == <<"news", <<query, timeRange, maxItems>>>>

\* a variant of generateMockNews that hands back no items
generateNoNews(maxItems) ==
    [n |-> 0, synthetic |-> TRUE, coins |-> MockCoins]

\* generateMockNews: mockNewsTemplates.slice(0, maxItems)
generateMockNews(maxItems) ==
    [n |-> Min(MockTemplates, maxItems), synthetic |-> TRUE, coins |-> MockCoins]

\* number of items both sources delivered (allNews.length)
AllNews(rss, reddit) == OrElse(rss, 0) + OrElse(reddit, 0)

\* fetchWithTimeout and its catch: the race of fetchNewsFromSources against
\* the timer.  uniq is the number of items removeDuplicates keeps.
FetchedNews(maxItems, timeout, rss, reddit, uniq, coins) ==
    IF timeout \/ AllNews(rss, reddit) = 0
    THEN generateMockNews(maxItems)
    ELSE [n |-> Min(uniq, maxItems), synthetic |-> FALSE, coins |-> coins]

\* how the news of a call was obtained
NewsPath(timeout, rss, reddit) ==
    IF timeout THEN "mock_timeout"
    ELSE IF rss = Unreachable /\ reddit = Unreachable THEN "mock_unreachable"
    ELSE IF AllNews(rss, reddit) = 0 THEN "mock_no_items"
    ELSE "real"

\* the inputs of one fetchNews call
NewsInputs(F, timeouts, sources) ==
    [ getFault : F, delFault : F, setFault : F, timeout : timeouts,
      rss : sources, reddit : sources, uniq : 1..(2 * MaxSrcItems),
      coins : NewsCoinLists ]

\* a variant of fetchNews that fetches without consulting the cache
fetchNewsUncached(mem, redis, query, timeRange, maxItems, in) ==
    LET key   == NewsKey(query, timeRange, maxItems)
        items == FetchedNews(maxItems, in.timeout, in.rss, in.reddit, in.uniq,
                             in.coins)
        w     == CacheSet(mem, redis, key, items, NewsTtl, in.setFault)
    IN  [ items |-> items, mem |-> w.mem, redis |-> w.redis,
          path |-> NewsPath(in.timeout, in.rss, in.reddit), fault |-> w.fault,
          tier |-> "none", redisRead |-> FALSE,
          wrote |-> SetTier(in.setFault) ]

\* fetchNews: the items returned and the two tiers afterwards
fetchNews(mem, redis, query, timeRange, maxItems, in) ==
    LET key   == NewsKey(query, timeRange, maxItems)
        r     == CacheGet(mem, redis, key, in.getFault, in.delFault)
        items == FetchedNews(maxItems, in.timeout, in.rss, in.reddit, in.uniq,
                             in.coins)
        w     == CacheSet(r.mem, r.redis, key, items, NewsTtl, in.setFault)
    IN  IF r.tier # "none"
        THEN [ items |-> r.value, mem |-> r.mem, redis |-> r.redis,
               path |-> "cache", fault |-> r.fault,
               tier |-> r.tier, redisRead |-> r.redisRead, wrote |-> "none" ]
        ELSE [ items |-> items, mem |-> w.mem, redis |-> w.redis,
               path |-> NewsPath(in.timeout, in.rss, in.reddit),
               fault |-> r.fault \/ w.fault,
               tier |-> "none", redisRead |-> r.redisRead,
               wrote |-> SetTier(in.setFault) ]

---------------------------------------------------------------------------
(* PriceService.getMultiplePrices *)

\* normalizeSymbol(symbol).symbol
normalizeSymbol(symbol) == toUpperCase(symbol)

\* the normalizedSymbols of getMultiplePrices (sorted in place at the key)
normalizedSymbols(coinSymbols) ==
    sort(Dedup([i \in 1..Len(coinSymbols) |-> normalizeSymbol(coinSymbols[i])]))

\* the key getCachedPrices reads in getMultiplePrices
PriceReadKey(coinSymbols) == <<"prices", sort(normalizedSymbols(coinSymbols))>>

\* the key cachePrices writes in getMultiplePrices
PriceWriteKey(coinSymbols) == <<"prices", sort(coinSymbols)>>

\* symbols of the table of generateMockPrices, and one it does not hold
BTC == <<66, 84, 67>>
ADA == <<65, 68, 65>>
Btc == <<98, 116, 99>>
XYZ == <<88, 89, 90>>

\* mockBasePrices[upperSymbol] || 10, in cents
mockBasePrice(upperSymbol) ==
    CASE upperSymbol = BTC -> 4500000
      [] upperSymbol = <<69, 84, 72>> -> 250000
      [] upperSymbol = ADA -> 45
      [] upperSymbol = <<83, 79, 76>> -> 9500
      [] upperSymbol = <<68, 79, 84>> -> 750
      [] upperSymbol = <<77, 65, 84, 73, 67>> -> 85
      [] upperSymbol = <<65, 86, 65, 88>> -> 2500
      [] upperSymbol = <<76, 73, 78, 75>> -> 1500
      [] upperSymbol = <<85, 78, 73>> -> 850
      [] upperSymbol = <<65, 84, 79, 77>> -> 1200
      [] OTHER -> 1000

\* Math.random() returns r / RandomUnits for some r in 0 .. RandomUnits - 1
RandomUnits == 100
Half == RandomUnits \div 2

\* Math.round(x) for x = num / den, den > 0: the nearest integer, halves up
RoundDiv(num, den) == (2 * num + den) \div (2 * den)

\* a variant of mockCurrent whose variation is (Math.random() - 0.5) * 0.2
mockCurrentWide(basePrice, r) ==
    basePrice + RoundDiv(basePrice * (r - Half), 5 * RandomUnits)

\* Math.round(basePrice * (1 + (Math.random() - 0.5) * 0.1) * 100) / 100,
\* in cents; the base prices are whole numbers of cents
mockCurrent(basePrice, r) ==
    basePrice + RoundDiv(basePrice * (r - Half), 10 * RandomUnits)

\* the index of the last element of coinSymbols whose upper case is k: the
\* loop assigns prices[upperSymbol] once per element, the last one stays
LastOf(coinSymbols, k) ==
    CHOOSE i \in 1..Len(coinSymbols) :
        /\ toUpperCase(coinSymbols[i]) = k
        /\ \A j \in (i + 1)..Len(coinSymbols) : toUpperCase(coinSymbols[j]) # k

\* generateMockPrices.  random[i]: the draw for the variation of element i
generateMockPrices(coinSymbols, random) ==
    LET keys == {toUpperCase(coinSymbols[i]) : i \in 1..Len(coinSymbols)}
    IN  [ symbols   |-> keys,
          synthetic |-> TRUE,
          quotes    |-> [k \in keys |->
                           [ symbol  |-> k,
                             current |-> mockCurrent(mockBasePrice(k),
                                            random[LastOf(coinSymbols, k)]) ]] ]

\* the prices of fetchWithTimeout, its catch and the empty-result check.
\* got: the symbols the two sources delivered.
FetchedPrices(coinSymbols, timeout, got, random) ==
    IF timeout \/ got = {}
    THEN generateMockPrices(coinSymbols, random)
    ELSE [symbols |-> got, synthetic |-> FALSE, quotes |-> <<>>]

NoPrices == [symbols |-> {}, synthetic |-> FALSE, quotes |-> <<>>]

\* the inputs of one getMultiplePrices call
PriceInputs(F, timeouts, gots, randoms) ==
    [ getFault : F, delFault : F, setFault : F, timeout : timeouts, got : gots,
      random : randoms ]

\* the draws of Math.random for the elements of a coin list
Draws(R) == [1..MaxCoins -> R]
MidDraws == Draws({Half})

\* getMultiplePrices: the prices returned and the two tiers afterwards.
\* symbolsToIds keeps the CoinGecko symbol table under a key of its own,
\* 'coingecko:symbol-mapping', which no other operation reads; that entry is
\* not part of the model.
getMultiplePrices(mem, redis, coinSymbols, in) ==
    LET r      == CacheGet(mem, redis, PriceReadKey(coinSymbols),
                           in.getFault, in.delFault)
        prices == FetchedPrices(coinSymbols, in.timeout, in.got, in.random)
        w      == CacheSet(r.mem, r.redis, PriceWriteKey(coinSymbols),
                           prices, PriceTtl, in.setFault)
    IN  IF r.tier # "none"
        THEN [ prices |-> r.value, mem |-> r.mem, redis |-> r.redis,
               hit |-> TRUE, redisRead |-> r.redisRead, wrote |-> "none",
               fault |-> r.fault ]
        ELSE [ prices |-> prices, mem |-> w.mem, redis |-> w.redis,
               hit |-> FALSE, redisRead |-> r.redisRead,
               wrote |-> SetTier(in.setFault),
               fault |-> r.fault \/ w.fault ]

---------------------------------------------------------------------------
(* Aggregation: aggregateResults and its helpers *)

Stages == {"sentiment", "behavioral", "multimodal", "predictive", "correlation"}
TotalStages == 5
TopNews == 5
HighImpactLimit == 2

Sentiments == {"BULLISH", "BEARISH", "NEUTRAL"}

\* What a settled stage promise carries.  Only the sentiment-fusion result has
\* an overallSentiment field and per-headline signals; high is the number of
\* its signals of magnitude HIGH.
\* defaulted tells whether the result is the one analyze returns from its
\* catch block; no field of the result says so.
Rejected == [status |-> "rejected", overallSentiment |-> "", high |-> 0,
             defaulted |-> FALSE]
Plain    == [status |-> "fulfilled", overallSentiment |-> "", high |-> 0,
             defaulted |-> FALSE]

SentimentOutcomes ==
    {Rejected} \cup
    { [status |-> "fulfilled", overallSentiment |-> o, high |-> h,
       defaulted |-> FALSE] :
        o \in Sentiments, h \in {0, HighImpactLimit + 1} }

\* the ways the five stage promises can settle
Settlements ==
    { [st \in Stages |-> IF st = "sentiment" THEN s
                         ELSE IF st \in R THEN Rejected ELSE Plain] :
        s \in SentimentOutcomes, R \in SUBSET (Stages \ {"sentiment"}) }

\* the keys of the results object built by aggregateResults
Fulfilled(f) == {st \in Stages : f[st].status = "fulfilled"}

\* a variant of successfulAnalyses that counts every settled promise
settledAnalyses(f) == Cardinality(Stages)

\* the successfulAnalyses counter of aggregateResults
successfulAnalyses(f) == Cardinality(Fulfilled(f))

\* a variant of Votes in which a result without an overallSentiment counts
\* as a NEUTRAL vote
VotesOfAll(f, o) ==
    Cardinality({st \in Fulfilled(f) :
        (IF f[st].overallSentiment = "" THEN "NEUTRAL"
         ELSE f[st].overallSentiment) = o})

\* the votes for o: one per result whose overallSentiment is o
Votes(f, o) == Cardinality({st \in Fulfilled(f) : f[st].overallSentiment = o})

\* Math.round(num / den * 100) for non-negative num and positive den
Round100(num, den) == (2 * 100 * num + den) \div (2 * den)

\* a variant of calculateOverallSentiment that leaves out the division of the
\* number of successful analyses by the number of analysis components
calculateOverallSentimentUnscaled(f, successful) ==
    LET bullishCount == Votes(f, "BULLISH")
        bearishCount == Votes(f, "BEARISH")
        neutralCount == Votes(f, "NEUTRAL")
        totalVotes   == bullishCount + bearishCount + neutralCount
        top          == Max(bullishCount, Max(bearishCount, neutralCount))
    IN [ overallSentiment |->
           IF bullishCount > bearishCount /\ bullishCount > neutralCount
           THEN "BULLISH"
           ELSE IF bearishCount > bullishCount /\ bearishCount > neutralCount
           THEN "BEARISH"
           ELSE "NEUTRAL",
         confidenceScore |->
           IF totalVotes > 0 THEN Round100(top * successful, totalVotes) ELSE 0 ]

\* calculateOverallSentiment; confidenceScore in hundredths
calculateOverallSentiment(f, successful) ==
    IF successful = 0
    THEN [overallSentiment |-> "NEUTRAL", confidenceScore |-> 0]
    ELSE LET bullishCount == Votes(f, "BULLISH")
             bearishCount == Votes(f, "BEARISH")
             neutralCount == Votes(f, "NEUTRAL")
             totalVotes   == bullishCount + bearishCount + neutralCount
             top          == Max(bullishCount, Max(bearishCount, neutralCount))
         IN [ overallSentiment |->
                IF bullishCount > bearishCount /\ bullishCount > neutralCount
                THEN "BULLISH"
                ELSE IF bearishCount > bullishCount /\ bearishCount > neutralCount
                THEN "BEARISH"
                ELSE "NEUTRAL",
              confidenceScore |->
                IF totalVotes > 0
                THEN Round100(top * successful, totalVotes * TotalStages)
                ELSE 0 ]

\* generateMarketSignals: one signal per item of newsItems.slice(0, 5)
generateMarketSignals(f, news) ==
    LET count == Min(TopNews, news.n)
        s     == f["sentiment"]
    IN  [ count |-> count,
          high  |-> IF s.status = "fulfilled" THEN Min(s.high, count) ELSE 0 ]

\* generateRiskAssessment.  The factor negative_sentiment_dominance, which
\* leaves the level as it is, is not modelled.
generateRiskAssessment(signals) ==
    LET volatile == signals.high > HighImpactLimit
    IN  [ level   |-> IF volatile THEN "HIGH" ELSE "MEDIUM",
          factors |-> (IF volatile THEN {"high_volatility_expected"} ELSE {})
                      \cup {"crypto_market_volatility", "regulatory_uncertainty"},
          impact_severity |-> IF volatile THEN "MAJOR" ELSE "MODERATE" ]

StrBitcoin == <<98, 105, 116, 99, 111, 105, 110>>
StrBtc     == <<98, 116, 99>>

\* generateRecommendations
generateRecommendations(sentiment, risk, query) ==
    ( IF sentiment = "BULLISH"
      THEN <<"Market sentiment is bullish", "Monitor for confirmation signals">>
      ELSE IF sentiment = "BEARISH"
      THEN <<"Market sentiment is bearish", "Consider defensive strategies">>
      ELSE <<"Mixed market signals", "Consider range-bound trading strategies">> )
    \o ( IF risk.level \in {"HIGH", "CRITICAL"}
         THEN <<"High risk detected", "Implement strict risk management protocols">>
         ELSE <<>> )
    \o ( IF includes(toLowerCase(query), StrBitcoin) \/ includes(toLowerCase(query), StrBtc)
         THEN <<"Monitor Bitcoin dominance">>
         ELSE <<>> )

\* aggregateResults: the Verdict of a call whose stages settled as f
aggregateResults(f, news, v, start) ==
    LET marketSignals == generateMarketSignals(f, news)
        overall       == calculateOverallSentiment(f, successfulAnalyses(f))
        risk          == generateRiskAssessment(marketSignals)
    IN  [ overall_sentiment  |-> overall.overallSentiment,
          confidence_score   |-> overall.confidenceScore,
          processing_time_ms |-> now - start,
          analysis_timestamp |-> now,
          market_signals     |-> marketSignals.count,
          behavioral_insights |-> IF "behavioral" \in Fulfilled(f)
                                  THEN "from_stage" ELSE "defaults",
          risk_assessment    |-> risk,
          actionable_recommendations |->
              generateRecommendations(overall.overallSentiment, risk, v.query),
          data_sources_count |-> news.n,
          ai_model_used      |-> "default_model" ]

ZodMessage    == "Query cannot be empty"
NoNewsMessage == "No news items found for the specified query and time range"

\* the Verdict built by the catch block of execute, at clock value t
ErrorResult(message, start, t) ==
    [ overall_sentiment  |-> "NEUTRAL",
      confidence_score   |-> 0,
      processing_time_ms |-> t - start,
      analysis_timestamp |-> t,
      market_signals     |-> 0,
      behavioral_insights |-> "error_defaults",
      risk_assessment    |-> [ level |-> "HIGH", factors |-> {"analysis_error"},
                               impact_severity |-> "MAJOR" ],
      actionable_recommendations |->
          << IF message = ZodMessage THEN "Analysis failed: Query cannot be empty"
             ELSE "Analysis failed: No news items found for the specified query and time range",
             "Please try again with different parameters",
             "Contact support if the issue persists" >>,
      data_sources_count |-> 0,
      ai_model_used      |-> "error" ]

---------------------------------------------------------------------------
(* SentimentFusionAnalyzer: the signals of the news items and their fusion. *)
(* Confidences and importances are counted in tenths, weights in            *)
(* hundredths, 24h price changes in whole percent.                          *)

\* mapSentimentToScale: confidence > 0.8 makes a signal a strong one
mapSentimentToScale(sentiment, confidence) ==
    IF sentiment = "POSITIVE"
    THEN (IF confidence > 8 THEN "STRONGLY_POSITIVE" ELSE "POSITIVE")
    ELSE IF sentiment = "NEGATIVE"
    THEN (IF confidence > 8 THEN "STRONGLY_NEGATIVE" ELSE "NEGATIVE")
    ELSE "NEUTRAL"

\* the signal analyze builds for one news item from the answer of
\* aiProcessor.analyzeSentiment and the item's importance_score
Signal(sentiment, confidence, importance) ==
    [ sentiment  |-> mapSentimentToScale(sentiment, confidence),
      confidence |-> confidence, importance |-> importance ]

\* the signal analyze builds for an item whose analysis threw
FailedSignal == [sentiment |-> "NEUTRAL", confidence |-> 1, importance |-> 1]

\* const weight = signal.confidence * signal.importance
SignalWeight(signal) == signal.confidence * signal.importance

\* a variant of ScoreFactor that counts every signal once
ScoreFactorOnce(sentiment) == 1

\* the factor of the switch in fuseSentiments: weight * 2 for a strong signal
ScoreFactor(sentiment) ==
    IF sentiment \in {"STRONGLY_POSITIVE", "STRONGLY_NEGATIVE"} THEN 2 ELSE 1

\* the score a list of signals adds up to for the sentiments in S
RECURSIVE Score(_, _)
Score(signals, S) ==
    IF Len(signals) = 0 THEN 0
    ELSE (IF Head(signals).sentiment \in S
          THEN SignalWeight(Head(signals)) * ScoreFactor(Head(signals).sentiment)
          ELSE 0) + Score(Tail(signals), S)

\* sum of a list of numbers
RECURSIVE Sum(_)
Sum(q) == IF Len(q) = 0 THEN 0 ELSE Head(q) + Sum(Tail(q))

\* calculatePriceInfluence on the change_24h values of priceContext, whose
\* average is Sum(changes) / Len(changes): the two multipliers and the unit
\* they are counted in (200 * coinCount stands for 1.0)
calculatePriceInfluence(changes) ==
    LET total == Sum(changes)
        count == Len(changes)
    IN  IF count = 0
        THEN [bullishMultiplier |-> 1, bearishMultiplier |-> 1, one |-> 1]
        ELSE IF total > 0
        THEN [ bullishMultiplier |-> 200 * count + Min(2 * total, 40 * count),
               bearishMultiplier |-> 200 * count - Min(total, 20 * count),
               one |-> 200 * count ]
        ELSE [ bullishMultiplier |-> 200 * count + Max(total, -20 * count),
               bearishMultiplier |-> 200 * count - Max(2 * total, -40 * count),
               one |-> 200 * count ]

\* a variant of Decide in which a bucket wins a tie
DecideLax(bullishScore, bearishScore, neutralScore) ==
    IF bullishScore >= bearishScore /\ bullishScore >= neutralScore THEN "BULLISH"
    ELSE IF bearishScore >= bullishScore /\ bearishScore >= neutralScore THEN "BEARISH"
    ELSE "NEUTRAL"

\* "Determine overall sentiment" of fuseSentiments
Decide(bullishScore, bearishScore, neutralScore) ==
    IF bullishScore > bearishScore /\ bullishScore > neutralScore THEN "BULLISH"
    ELSE IF bearishScore > bullishScore /\ bearishScore > neutralScore THEN "BEARISH"
    ELSE "NEUTRAL"

\* the score the overall sentiment was decided by
WinnerScore(overallSentiment, bullishScore, bearishScore, neutralScore) ==
    CASE overallSentiment = "BULLISH" -> bullishScore
      [] overallSentiment = "BEARISH" -> bearishScore
      [] OTHER -> neutralScore

\* confidence: Math.min(confidence, 1.0), in hundredths, rounded down; score
\* is the deciding score before the division by totalWeight, in the unit one
FusedConfidence(score, totalWeight, one) ==
    IF totalWeight = 0 THEN 0
    ELSE Min(100, (100 * score) \div (totalWeight * one))

\* fuseSentiments.  The three scores are divided by the same positive
\* totalWeight, which no comparison notices; they are kept undivided, with
\* the neutral score in the unit of the multipliers.
fuseSentiments(signals, changes) ==
    IF Len(signals) = 0
    THEN [overallSentiment |-> "NEUTRAL", bullishScore |-> 0, bearishScore |-> 0,
          neutralScore |-> 0, confidence |-> 0]
    ELSE LET priceInfluence == calculatePriceInfluence(changes)
             bullishScore == Score(signals, {"STRONGLY_POSITIVE", "POSITIVE"})
                               * priceInfluence.bullishMultiplier
             bearishScore == Score(signals, {"STRONGLY_NEGATIVE", "NEGATIVE"})
                               * priceInfluence.bearishMultiplier
             neutralScore == Score(signals, {"NEUTRAL"}) * priceInfluence.one
             totalWeight  == Sum([i \in 1..Len(signals) |-> SignalWeight(signals[i])])
             overall      == Decide(bullishScore, bearishScore, neutralScore)
         IN  [ overallSentiment |-> overall,
               bullishScore |-> bullishScore, bearishScore |-> bearishScore,
               neutralScore |-> neutralScore,
               confidence |-> FusedConfidence(
                   WinnerScore(overall, bullishScore, bearishScore, neutralScore),
                   totalWeight, priceInfluence.one) ]

\* the settlement of the five stages when the sentiment stage fulfils with
\* the fusion result and the other four fulfil
FusedSettlement(fusion) ==
    [st \in Stages |-> IF st = "sentiment"
                       THEN [status |-> "fulfilled",
                             overallSentiment |-> fusion.overallSentiment,
                             high |-> 0, defaulted |-> FALSE]
                       ELSE Plain]

NoSignals == [signals |-> <<>>, changes |-> <<>>]

---------------------------------------------------------------------------
(* The five stages: analyze and the promise execute waits for *)

\* the settlement of a stage whose analyze returned from its catch block:
\* the sentiment stage's default is NEUTRAL with no signals, the other four
\* stages' defaults carry no overallSentiment
StageDefault(st) ==
    [ status |-> "fulfilled",
      overallSentiment |-> IF st = "sentiment" THEN "NEUTRAL" ELSE "",
      high |-> 0, defaulted |-> TRUE ]

\* the confidence aiProcessor.analyzeSentiment answers with when the provider
\* failed or its answer could not be used, in tenths
AiFallbackConfidence == 3

\* aiProcessor.analyzeSentiment: the provider's answer, or NEUTRAL with the
\* fallback confidence when the request or the parsing of the answer threw
analyzeSentiment(ai, sentiment, confidence) ==
    IF ai = "down"
    THEN [sentiment |-> "NEUTRAL", confidence |-> AiFallbackConfidence]
    ELSE [sentiment |-> sentiment, confidence |-> Max(0, Min(10, confidence))]

\* the signal analyze builds for one item.  broken: something in the item's
\* own try block threw (item.content is not a string, say)
ItemSignal(item) ==
    IF item.broken THEN FailedSignal
    ELSE LET sentimentResult == analyzeSentiment(item.ai, item.sentiment,
                                                 item.confidence)
         IN  Signal(sentimentResult.sentiment, sentimentResult.confidence,
                    item.importance)

\* what analyze of a stage returns.  settles is how the promise of the async
\* function settles; the four stages other than the sentiment stage return
\* records without overallSentiment and confidence.
StageReturn(overallSentiment, confidence, defaulted) ==
    [ settles |-> "fulfilled", overallSentiment |-> overallSentiment,
      confidence |-> confidence, defaulted |-> defaulted ]

\* SentimentFusionAnalyzer.analyze.  in.throws: an error reaches the outer
\* catch block.
sentimentAnalyze(in) ==
    IF in.throws
    THEN StageReturn("NEUTRAL", 0, TRUE)
    ELSE LET signals == [i \in 1..Len(in.items) |-> ItemSignal(in.items[i])]
             fusionResult == fuseSentiments(signals, in.changes)
         IN  StageReturn(fusionResult.overallSentiment, fusionResult.confidence,
                         FALSE)

\* analyze of the other four stages: try { await Promise.all(sub-steps) }
\* catch { return the default }.  in.throws: a sub-step rejected.
plainAnalyze(in) ==
    IF in.throws THEN StageReturn("", 0, TRUE) ELSE StageReturn("", 0, FALSE)

\* analyze of stage st
analyze(st, in) ==
    IF st = "sentiment" THEN sentimentAnalyze(in) ELSE plainAnalyze(in)

\* the items of the sentiment stage: answered by the provider, not answered
\* (the provider is down), or broken
NoItem == [ ai |-> "ok", sentiment |-> "NEUTRAL", confidence |-> 5,
            importance |-> 5, broken |-> FALSE ]
StageItems ==
    { [NoItem EXCEPT !.sentiment = "POSITIVE", !.confidence = 9],
      [NoItem EXCEPT !.sentiment = "NEGATIVE"],
      NoItem,
      [NoItem EXCEPT !.ai = "down"],
      [NoItem EXCEPT !.broken = TRUE] }

MaxItems == 2

StageInputs ==
    { [stage |-> "sentiment", items |-> q, changes |-> c, throws |-> t] :
        q \in UNION { [1..n -> StageItems] : n \in 1..MaxItems },
        c \in {<<>>, <<10>>}, t \in BOOLEAN }
    \cup
    { [stage |-> st, items |-> <<>>, changes |-> <<>>, throws |-> t] :
        st \in Stages \ {"sentiment"}, t \in BOOLEAN }

NoStageInput == [stage |-> "sentiment", items |-> <<>>, changes |-> <<>>,
                 throws |-> FALSE]

\* the stage is run on the input
StageAnalyze ==
    /\ sOut = <<>>
    /\ sOut' = <<analyze(sIn.stage, sIn)>>
    /\ UNCHANGED <<sIn, cacheVars, execVars, keyVars, pCalls, cOps, raceVars,
                   fusionVars, routed, connVars, backVars>>

---------------------------------------------------------------------------
(* AnalyzeCryptoSentimentTool.execute, called through a protocol adapter *)

Adapters == {"rest", "http"}

NoArgs  == [ query |-> None, analysis_depth |-> None, max_news_items |-> None,
             time_range |-> None, include_prices |-> None, focus_coins |-> None,
             stream_updates |-> None ]

\* the argument objects the adapters hand to execute: the query "b" with and
\* without prices, the empty query with an unknown depth (the request of
\* TestRunner.testErrorHandling), {} (a body without "arguments"), and the
\* query "b" with an item count or a time range the schema does not allow,
\* and the query "b" with an empty list of focus coins
ExecArgs ==
    { [NoArgs EXCEPT !.query = Some(<<98>>)],
      [NoArgs EXCEPT !.query = Some(<<98>>), !.include_prices = Some(FALSE)],
      [NoArgs EXCEPT !.query = Some(<<>>), !.analysis_depth = Some("invalid_depth")],
      NoArgs,
      [NoArgs EXCEPT !.query = Some(<<98>>), !.max_news_items = Some(MinNewsItems - 1)],
      [NoArgs EXCEPT !.query = Some(<<98>>), !.time_range = Some("2h")],
      [NoArgs EXCEPT !.query = Some(<<98>>), !.focus_coins = Some(<<>>)] }

NoValid == AnalysisRequestSchema([NoArgs EXCEPT !.query = Some(<<>>)])
NoNews  == [n |-> 0, synthetic |-> FALSE, coins |-> <<>>]
NoSettled == [st \in Stages |-> Rejected]
NoVerdict == ErrorResult("", 0, 0)

NoCur == [ hit |-> FALSE, tier |-> "none", cause |-> "none", newsPath |-> "none",
           cacheRead |-> FALSE, ranFetch |-> FALSE, ranStages |-> FALSE,
           rejected |-> {}, successful |-> 0, redisRead |-> FALSE, wrote |-> "none",
           outcome |-> "pending", verdict |-> NoVerdict,
           phases |-> <<>>, coins |-> 0, writes |-> <<>>,
           stages |-> NoSettled, mockNews |-> FALSE, mockPrices |-> FALSE ]

\* the phase of execute a position belongs to
PhaseOf(p) ==
    CASE p \in {"validate", "cache_read"} -> "INIT"
      [] p = "fetch_news"   -> "FETCH_NEWS"
      [] p = "fetch_prices" -> "FETCH_PRICES"
      [] p = "fan_out"      -> "FAN_OUT_STAGES"
      [] p = "aggregate"    -> "AGGREGATE"
      [] p = "cache_write"  -> "CACHE_WRITE"
      [] p = "catch"        -> "FAILED"
      [] OTHER              -> "DONE"

\* the bookkeeping of a call that moves on to position p
Enter(c, p) ==
    [c EXCEPT !.phases = IF Len(@) > 0 /\ @[Len(@)] = PhaseOf(p) THEN @
                         ELSE Append(@, PhaseOf(p))]

\* execute was handed a progressCallback
Streaming == IsSome(wsIn) /\ Get(wsIn).stream

\* sendProgress: the message for one progress event
ProgressMsg(requestId, progress) ==
    [ type |-> "progress_update", id |-> <<"progress", requestId>>,
      request_id |-> requestId, progress |-> progress ]

\* updateProgress, once for each of the percentages ps: the messages sent
\* on the connection afterwards
updateProgress(out, ps) ==
    IF Streaming
    THEN out \o [i \in 1..Len(ps) |-> ProgressMsg(Get(wsIn).requestId, ps[i])]
    ELSE out

ExecInit ==
    /\ pc = "boot"
    /\ args = NoArgs
    /\ validatedArgs = NoValid
    /\ startTime = 0
    /\ newsItems = NoNews
    /\ priceData = NoPrices
    /\ settled = NoSettled
    /\ thrown = ""
    /\ cur = NoCur
    /\ calls = <<>>
    /\ wsIn = None
    /\ wsOut = <<>>

\* the state of a freshly constructed CacheManager, before connect()
CacheInit ==
    /\ useRedis = TRUE
    /\ connected = FALSE
    /\ memoryCache = Empty
    /\ redisStore = Empty
    /\ now = 0

\* start(): await cacheManager.connect(), before any request is served.
\* ok: the 'connect' event fires; otherwise connect() catches the failure
Startup(ok) ==
    /\ pc = "boot"
    /\ pc' = "idle"
    /\ connected' = ok
    /\ useRedis' = ok
    /\ UNCHANGED <<args, validatedArgs, startTime, newsItems, priceData, settled,
                   thrown, cur, calls, memoryCache, redisStore, now,
                   wsVars, harnessVars>>

\* an adapter receives a tools/call and calls execute(args)
Call(a) ==
    /\ pc = "idle"
    /\ pc' = "validate"
    /\ args' = a
    /\ startTime' = now
    /\ cur' = Enter(NoCur, "validate")
    /\ validatedArgs' = NoValid
    /\ newsItems' = NoNews
    /\ priceData' = NoPrices
    /\ settled' = NoSettled
    /\ thrown' = ""
    /\ UNCHANGED <<calls, cacheVars,
                   wsVars, harnessVars>>

\* a JSON-RPC id: a number, or the string handleMessage makes up
NumId(n) == [kind |-> "number", n |-> n]
WsId(t)  == [kind |-> "ws", n |-> t]
\* the id of sendError(connectionId, 'error', ...)
ErrorId  == [kind |-> "error", n |-> 0]

\* const requestId = message.id || `ws-${Date.now()}`
requestIdOf(id) == IF id.n = 0 THEN WsId(now) ELSE id

\* handleMessage, case 'tools/call' of analyze_crypto_sentiment: the first
\* progress event, then execute(args || {}, callback) is called
WsCall(id, a) ==
    /\ pc = "idle"
    /\ pc' = "validate"
    /\ args' = a
    /\ startTime' = now
    /\ cur' = Enter(NoCur, "validate")
    /\ validatedArgs' = NoValid
    /\ newsItems' = NoNews
    /\ priceData' = NoPrices
    /\ settled' = NoSettled
    /\ thrown' = ""
    /\ wsIn' = Some([ id |-> id, requestId |-> requestIdOf(id),
                      stream |-> OrElse(a.stream_updates, FALSE) ])
    /\ wsOut' = IF OrElse(a.stream_updates, FALSE)
                THEN Append(wsOut, ProgressMsg(requestIdOf(id), 0))
                ELSE wsOut
    /\ UNCHANGED <<calls, cacheVars, harnessVars>>

\* const validatedArgs = AnalysisRequestSchema.parse(args);
\* const cacheKey = this.generateCacheKey(validatedArgs)
Validate ==
    /\ pc = "validate"
    /\ IF ParseThrows(args)
       THEN /\ thrown' = ZodMessage
            /\ pc' = "catch"
            /\ cur' = Enter([cur EXCEPT !.cause = "validation"], "catch")
            /\ UNCHANGED validatedArgs
       ELSE /\ validatedArgs' = [AnalysisRequestSchema(args) EXCEPT
                                   !.focus_coins = focusCoinsAfterKey(AnalysisRequestSchema(args))]
            /\ pc' = "cache_read"
            /\ UNCHANGED <<thrown, cur>>
    /\ UNCHANGED <<args, startTime, newsItems, priceData, settled, calls, cacheVars,
                   wsVars, harnessVars>>

\* a variant of AnalysisKey that leaves the fingerprint out
AnalysisKeyFixed(v) == <<"analysis", <<>>>>

\* getCachedAnalysis, cacheAnalysis: the key `analysis:${key}`
AnalysisKey(v) == <<"analysis", generateCacheKey(v)>>

\* const cachedResult = await cacheManager.getCachedAnalysis(cacheKey);
\* if (cachedResult) return cachedResult
ReadAnalysisCache(getFault, delFault) ==
    /\ pc = "cache_read"
    /\ LET r == CacheGet(memoryCache, redisStore, AnalysisKey(validatedArgs),
                         getFault, delFault)
       IN /\ memoryCache' = r.mem
          /\ redisStore' = r.redis
          /\ useRedis' = OnOpError(useRedis, r.fault)
          /\ connected' = OnOpError(connected, r.fault)
          /\ IF r.tier # "none"
             THEN /\ pc' = "done"
                  /\ cur' = Enter([cur EXCEPT !.hit = TRUE, !.cacheRead = TRUE,
                                        !.tier = r.tier,
                                        !.redisRead = r.redisRead,
                                        !.outcome = "resolved", !.verdict = r.value],
                                  "done")
                  /\ UNCHANGED wsOut
             ELSE /\ pc' = "fetch_news"
                  /\ cur' = Enter([cur EXCEPT !.cacheRead = TRUE,
                                        !.redisRead = r.redisRead], "fetch_news")
                  /\ wsOut' = updateProgress(wsOut, <<5, 10>>)
    /\ UNCHANGED <<args, validatedArgs, startTime, newsItems, priceData, settled,
                   thrown, calls, now, wsIn,
                   harnessVars>>

\* the coins whose prices execute asks for
mentionedCoins(v, news) ==
    IF IsSome(v.focus_coins) THEN Get(v.focus_coins) ELSE news.coins

\* a variant of AfterNews that fetches prices for every call with news
AfterNewsAlwaysPrices(v, items) ==
    IF items.n = 0 THEN "catch" ELSE "fetch_prices"

\* where execute goes once fetchNews has returned items
AfterNews(v, items) ==
    IF items.n = 0 THEN "catch"
    ELSE IF v.include_prices /\ Len(mentionedCoins(v, items)) > 0 THEN "fetch_prices"
    ELSE "fan_out"

\* the percentages execute reports between fetchNews and the next await
ProgressAfterNews(v, items) ==
    IF items.n = 0 THEN <<>>
    ELSE <<20>> \o (IF v.include_prices THEN <<25>> ELSE <<>>)
              \o (IF AfterNews(v, items) = "fan_out" THEN <<35>> ELSE <<>>)

\* const newsItems = await this.newsAggregator.fetchNews(...);
\* if (newsItems.length === 0) throw new Error('No news items found ...')
FetchNews(in) ==
    /\ pc = "fetch_news"
    /\ in.uniq <= Max(1, AllNews(in.rss, in.reddit))
    /\ LET v == validatedArgs
           r == fetchNews(memoryCache, redisStore, v.query, v.time_range,
                          v.max_news_items, in)
       IN /\ memoryCache' = r.mem
          /\ redisStore' = r.redis
          /\ useRedis' = OnOpError(useRedis, r.fault)
          /\ connected' = OnOpError(connected, r.fault)
          /\ newsItems' = r.items
          /\ pc' = AfterNews(v, r.items)
          /\ thrown' = IF r.items.n = 0 THEN NoNewsMessage ELSE thrown
          /\ cur' = Enter([cur EXCEPT !.newsPath = r.path,
                                !.ranFetch = (r.path # "cache"),
                                !.cause = IF r.items.n = 0 THEN "zero_news" ELSE @,
                                !.coins = Len(mentionedCoins(v, r.items)),
                                !.mockNews = r.items.synthetic],
                          AfterNews(v, r.items))
          /\ wsOut' = updateProgress(wsOut, ProgressAfterNews(v, r.items))
    /\ UNCHANGED <<args, validatedArgs, startTime, priceData, settled, calls, now,
                   wsIn, harnessVars>>

\* priceData = await this.priceService.getMultiplePrices(mentionedCoins)
FetchPrices(in) ==
    /\ pc = "fetch_prices"
    /\ LET coins == mentionedCoins(validatedArgs, newsItems)
           r     == getMultiplePrices(memoryCache, redisStore, coins, in)
       IN /\ in.got \subseteq Range(normalizedSymbols(coins))
          /\ memoryCache' = r.mem
          /\ redisStore' = r.redis
          /\ useRedis' = OnOpError(useRedis, r.fault)
          /\ connected' = OnOpError(connected, r.fault)
          /\ priceData' = r.prices
    /\ pc' = "fan_out"
    /\ cur' = Enter([cur EXCEPT !.mockPrices = priceData'.synthetic], "fan_out")
    /\ wsOut' = updateProgress(wsOut, <<30, 35>>)
    /\ UNCHANGED <<args, validatedArgs, startTime, newsItems, settled, thrown,
                   calls, now, wsIn,
                   harnessVars>>

\* the percentage the .then callback of a stage reports
StageProgress(st) ==
    CASE st = "sentiment"   -> 45
      [] st = "behavioral"  -> 55
      [] st = "multimodal"  -> 65
      [] st = "predictive"  -> 75
      [] st = "correlation" -> 80

\* the stages in the order of executeParallelAnalysis's array
StageOrder == <<"sentiment", "behavioral", "multimodal", "predictive", "correlation">>

\* the orders in which five concurrent stages can settle
StageOrders ==
    { o \in [1..5 -> Stages] : \A st \in Stages : \E i \in 1..5 : o[i] = st }

\* the percentages the .then callbacks report when the stages settle in the
\* order o: a callback runs when its stage fulfils, and not when it rejects
RECURSIVE StagePercentages(_, _)
StagePercentages(f, o) ==
    IF Len(o) = 0 THEN <<>>
    ELSE (IF f[Head(o)].status = "fulfilled" THEN <<StageProgress(Head(o))>>
          ELSE <<>>) \o StagePercentages(f, Tail(o))

\* executeParallelAnalysis: Promise.allSettled over the five stages, which
\* settle in the order o
FanOut(f, o) ==
    /\ pc = "fan_out"
    /\ settled' = f
    /\ cur' = Enter([cur EXCEPT !.ranStages = TRUE,
                                !.rejected = Stages \ Fulfilled(f)], "aggregate")
    /\ wsOut' = updateProgress(wsOut, StagePercentages(f, o))
    /\ pc' = "aggregate"
    /\ UNCHANGED <<args, validatedArgs, startTime, newsItems, priceData, thrown,
                   calls, cacheVars, wsIn,
                   harnessVars>>

\* const finalResult = await this.aggregateResults(...); the locals it read
\* are not used again
Aggregate ==
    /\ pc = "aggregate"
    /\ cur' = Enter([cur EXCEPT
                 !.stages = settled,
                 !.successful = successfulAnalyses(settled),
                 !.verdict = aggregateResults(settled, newsItems, validatedArgs,
                                              startTime)], "cache_write")
    /\ wsOut' = updateProgress(wsOut, <<85, 95>>)
    /\ pc' = "cache_write"
    /\ newsItems' = NoNews
    /\ priceData' = NoPrices
    /\ settled' = NoSettled
    /\ UNCHANGED <<args, validatedArgs, startTime, thrown, calls, cacheVars,
                   wsIn, harnessVars>>

\* await cacheManager.cacheAnalysis(cacheKey, finalResult); return finalResult
WriteAnalysisCache(setFault) ==
    /\ pc = "cache_write"
    /\ LET w == CacheSet(memoryCache, redisStore, AnalysisKey(validatedArgs),
                         cur.verdict, AnalysisTtl, setFault)
       IN /\ memoryCache' = w.mem
          /\ redisStore' = w.redis
          /\ useRedis' = OnOpError(useRedis, w.fault)
          /\ connected' = OnOpError(connected, w.fault)
    /\ cur' = Enter([cur EXCEPT !.wrote = SetTier(setFault), !.outcome = "resolved",
                                !.writes = Append(@,
                                    [ key |-> AnalysisKey(validatedArgs),
                                      value |-> cur.verdict, ttl |-> AnalysisTtl,
                                      phases |-> cur.phases ])],
                    "done")
    /\ wsOut' = updateProgress(wsOut, <<100>>)
    /\ pc' = "done"
    /\ UNCHANGED <<args, validatedArgs, startTime, newsItems, priceData, settled,
                   thrown, calls, now, wsIn,
                   harnessVars>>

\* a variant of CatchOutcome in which the catch block rethrows
CatchRethrows(message) == "rejected"

\* what the catch block of execute does with the caught error: it returns
\* the error result, so the promise resolves
CatchOutcome(message) == "resolved"

\* catch (error) { ... return { overall_sentiment: 'NEUTRAL', ... } }
Catch ==
    /\ pc = "catch"
    /\ cur' = Enter([cur EXCEPT !.outcome = CatchOutcome(thrown),
                          !.verdict = ErrorResult(thrown, startTime, now)], "done")
    /\ pc' = "done"
    /\ UNCHANGED <<args, validatedArgs, startTime, newsItems, priceData, settled,
                   thrown, calls, cacheVars,
                   wsVars, harnessVars>>

\* POST /tools/analyze_crypto_sentiment: the envelope sent for a call
RestRespond(outcome) ==
    IF outcome = "resolved"
    THEN [status |-> 200, success |-> TRUE, code |-> 0]
    ELSE [status |-> 400, success |-> FALSE, code |-> 0]

\* POST /mcp, tools/call: the JSON-RPC response sent for a call
HttpMcpRespond(outcome) ==
    IF outcome = "resolved"
    THEN [status |-> 200, success |-> TRUE, code |-> 0]
    ELSE [status |-> 400, success |-> FALSE, code |-> -32603]

\* handleMessage: what the client is told about a call; a WebSocket message
\* has no HTTP status
WsEnvelope(outcome) ==
    IF outcome = "resolved"
    THEN [status |-> 0, success |-> TRUE, code |-> 0]
    ELSE [status |-> 0, success |-> FALSE, code |-> -32603]

\* handleMessage: the response (or the error) sent for a call
WsRespond(requestId, outcome) ==
    IF outcome = "resolved"
    THEN [type |-> "result", id |-> requestId]
    ELSE [type |-> "error", id |-> ErrorId]

\* the adapter that made the call sends its response for it
Return(via) ==
    /\ pc = "done"
    /\ (via = "ws") = IsSome(wsIn)
    /\ calls' = Append(calls,
          [ args |-> args, via |-> via, startedAt |-> startTime, info |-> cur,
            response |-> CASE via = "rest" -> RestRespond(cur.outcome)
                           [] via = "http" -> HttpMcpRespond(cur.outcome)
                           [] OTHER -> WsEnvelope(cur.outcome) ])
    /\ wsIn' = None
    /\ wsOut' = IF via = "ws"
                THEN Append(wsOut, WsRespond(Get(wsIn).requestId, cur.outcome))
                ELSE wsOut
    /\ pc' = "idle"
    /\ args' = NoArgs
    /\ validatedArgs' = NoValid
    /\ startTime' = 0
    /\ thrown' = ""
    /\ cur' = NoCur
    /\ UNCHANGED <<newsItems, priceData, settled, cacheVars,
                   harnessVars>>

---------------------------------------------------------------------------
(* The environment of the CacheManager *)

\* client.on('connect')
RedisConnect ==
    /\ ~connected
    /\ connected' = TRUE
    /\ useRedis' = TRUE
    /\ UNCHANGED <<memoryCache, redisStore, now>>

\* client.on('disconnect')
RedisDisconnect ==
    /\ connected
    /\ connected' = FALSE
    /\ useRedis' = FALSE
    /\ UNCHANGED <<memoryCache, redisStore, now>>

\* client.on('error')
RedisError ==
    /\ useRedis \/ connected
    /\ useRedis' = FALSE
    /\ connected' = FALSE
    /\ UNCHANGED <<memoryCache, redisStore, now>>

\* the Redis server drops a key whose SETEX time has run out; the server
\* keeps its own clock, so the drop may come later than Date.now() of the
\* process would have it
RedisExpire(ck) ==
    /\ ck \in DOMAIN redisStore
    /\ now - redisStore[ck].timestamp >= redisStore[ck].ttl
    /\ redisStore' = Remove(redisStore, ck)
    /\ UNCHANGED <<useRedis, connected, memoryCache, now>>

\* time passes; one tick is longer than one call takes
Tick ==
    /\ pc = "idle"
    /\ now < MaxNow
    /\ now' = now + 1
    /\ UNCHANGED <<useRedis, connected, memoryCache, redisStore>>

\* the events of the Redis client, once the server has started
RedisEvents ==
    /\ pc # "boot"
    /\ \/ RedisConnect
       \/ RedisDisconnect
       \/ RedisError
    /\ UNCHANGED <<execVars, harnessVars>>

\* the passing of time, at the server and at the Redis server
TimePasses ==
    /\ \/ \E ck \in DOMAIN redisStore : RedisExpire(ck)
       \/ Tick
    /\ UNCHANGED <<execVars, harnessVars>>

---------------------------------------------------------------------------
(* Direct use of the CacheManager: get, set, del and flush on a few keys *)

CacheKeys   == { <<"k", 1>>, <<"k", 2>> }
CacheValues == { "x", "y" }
CacheTtls   == { 0, NewsTtl }

\* the record kept of one completed operation
OpRecord(op, key, r, tryBefore) ==
    [ op |-> op, key |-> key, at |-> now, fault |-> r.fault, tier |-> r.tier,
      value |-> r.value, age |-> r.age, ttl |-> r.ttl,
      redisOld |-> r.redisOld, memOld |-> r.memOld,
      tryBefore |-> tryBefore,
      tryAfter |-> OnOpError(useRedis, r.fault) /\ OnOpError(connected, r.fault),
      inRedisAfter |-> getKey(key) \in DOMAIN r.redis,
      inMemAfter |-> getKey(key) \in DOMAIN r.mem ]

\* the fields of an operation record that only get fills in
NoRead == [ tier |-> "none", value |-> Null, age |-> 0, ttl |-> 0,
            redisOld |-> FALSE, memOld |-> FALSE ]

Completed(op, key, r) ==
    /\ memoryCache' = r.mem
    /\ redisStore' = r.redis
    /\ useRedis' = OnOpError(useRedis, r.fault)
    /\ connected' = OnOpError(connected, r.fault)
    /\ cOps' = Append(cOps, OpRecord(op, key, r, TryRedis))
    /\ UNCHANGED <<now, execVars, keyVars, pCalls, raceVars, fusionVars, frontVars>>

\* await cacheManager.get(key)
OpGet(key, getFault, delFault) ==
    /\ pc = "idle"
    /\ Len(cOps) < MaxOps
    /\ Completed("get", key,
                 CacheGet(memoryCache, redisStore, key, getFault, delFault))

\* await cacheManager.set(key, value, ttlSeconds)
OpSet(key, value, ttlSeconds, setFault) ==
    /\ pc = "idle"
    /\ Len(cOps) < MaxOps
    /\ LET w == CacheSet(memoryCache, redisStore, key, value, ttlSeconds, setFault)
       IN Completed("set", key,
                    [NoRead EXCEPT !.value = value, !.ttl = ttlSeconds,
                                   !.tier = SetTier(setFault)]
                    @@ [redis |-> w.redis, mem |-> w.mem, fault |-> w.fault])

\* await cacheManager.del(key)
OpDel(key, delFault) ==
    /\ pc = "idle"
    /\ Len(cOps) < MaxOps
    /\ LET d == CacheDel(memoryCache, redisStore, key, delFault)
       IN Completed("del", key,
                    NoRead @@ [redis |-> d.redis, mem |-> d.mem, fault |-> d.fault])

\* await cacheManager.flush()
OpFlush(flushFault) ==
    /\ pc = "idle"
    /\ Len(cOps) < MaxOps
    /\ LET d == CacheFlush(memoryCache, redisStore, flushFault)
       IN Completed("flush", <<"k", 0>>,
                    NoRead @@ [redis |-> d.redis, mem |-> d.mem, fault |-> d.fault])

---------------------------------------------------------------------------
(* A fetch the timer of fetchWithTimeout has beaten.  Promise.race settles  *)
(* with the timer's rejection; the fetch promise is not cancelled and       *)
(* settles later, when nothing awaits it any more.                          *)

\* the record kept of an abandoned fetch: whose it is, the key its call wrote
\* its result under, and the number of that call
Abandon(kind, key, call) ==
    [kind |-> kind, key |-> key, call |-> call, state |-> "running"]

\* the key symbolsToIds keeps the CoinGecko symbol table under, for 24 hours
MappingKey == <<"coingecko", "symbol-mapping">>
MappingTtl == 144 * NewsTtl

\* what an abandoned fetch can still do once its call has returned: settle
\* either way, and (a price fetch) store the symbol table on its way
LateSteps == [outcome : {"fulfilled", "rejected"}, mapped : BOOLEAN]

\* a variant of AbandonedEffect in which the late result replaces the entry
\* its call wrote
AbandonedOverwrites(mem, redis, op, late, setFault) ==
    CacheSet(mem, redis, op.key,
             IF op.kind = "news" THEN NoNews ELSE NoPrices, NewsTtl, setFault)

\* the cache after an abandoned fetch has run to its end.
\* fetchNewsFromSources touches no cache; fetchPricesFromSources calls
\* symbolsToIds, which stores the symbol table it downloaded
AbandonedEffect(mem, redis, op, late, setFault) ==
    IF op.kind = "prices" /\ late.mapped
    THEN CacheSet(mem, redis, MappingKey, "mapping", MappingTtl, setFault)
    ELSE [mem |-> mem, redis |-> redis, fault |-> FALSE]

\* the abandoned fetch i settles
AbandonedSettles(i, late, setFault) ==
    /\ pc = "idle"
    /\ i \in 1..Len(abandoned)
    /\ abandoned[i].state = "running"
    /\ LET e == AbandonedEffect(memoryCache, redisStore, abandoned[i], late,
                                setFault)
       IN /\ memoryCache' = e.mem
          /\ redisStore' = e.redis
          /\ useRedis' = OnOpError(useRedis, e.fault)
          /\ connected' = OnOpError(connected, e.fault)
    /\ abandoned' = [abandoned EXCEPT ![i].state = late.outcome]
    /\ UNCHANGED <<now, execVars, keyVars, pCalls, cOps, nCalls, fusionVars, frontVars>>

---------------------------------------------------------------------------
(* Direct use of NewsAggregator.fetchNews *)

NewsArgs == { <<<<98>>, "6h", MinNewsItems>>, <<<<98>>, "1h", MinNewsItems>> }

\* await newsAggregator.fetchNews(query, timeRange, maxItems)
NewsCall(a, in) ==
    /\ pc = "idle"
    /\ in.uniq <= Max(1, AllNews(in.rss, in.reddit))
    /\ LET r == fetchNews(memoryCache, redisStore, a[1], a[2], a[3], in)
       IN /\ memoryCache' = r.mem
          /\ redisStore' = r.redis
          /\ useRedis' = OnOpError(useRedis, r.fault)
          /\ connected' = OnOpError(connected, r.fault)
          /\ nCalls' = Append(nCalls,
                [ args |-> a, at |-> now, path |-> r.path, items |-> r.items,
                  tier |-> r.tier, redisRead |-> r.redisRead,
                  wrote |-> r.wrote ])
          /\ abandoned' = IF r.path = "mock_timeout"
                          THEN Append(abandoned,
                                  Abandon("news", NewsKey(a[1], a[2], a[3]),
                                          Len(nCalls) + 1))
                          ELSE abandoned
    /\ UNCHANGED <<now, execVars, keyVars, pCalls, cOps, fusionVars, frontVars>>

---------------------------------------------------------------------------
(* Direct use of PriceService.getMultiplePrices *)

\* coin lists: one coin, the same coin twice, two coins in both orders
PriceLists == { <<SymB>>, <<SymB, SymB>>, <<SymB, SymE>>, <<SymE, SymB>> }

\* await priceService.getMultiplePrices(coinSymbols)
PriceCall(coinSymbols, in) ==
    /\ pc = "idle"
    /\ Len(pCalls) < MaxPCalls
    /\ in.got \subseteq Range(normalizedSymbols(coinSymbols))
    /\ LET r == getMultiplePrices(memoryCache, redisStore, coinSymbols, in)
       IN /\ memoryCache' = r.mem
          /\ redisStore' = r.redis
          /\ useRedis' = OnOpError(useRedis, r.fault)
          /\ connected' = OnOpError(connected, r.fault)
          /\ pCalls' = Append(pCalls,
                [ coins |-> coinSymbols, at |-> now, hit |-> r.hit,
                  redisRead |-> r.redisRead, wrote |-> r.wrote,
                  prices |-> r.prices ])
          /\ abandoned' = IF ~r.hit /\ in.timeout
                          THEN Append(abandoned,
                                  Abandon("prices", PriceWriteKey(coinSymbols),
                                          Len(pCalls) + 1))
                          ELSE abandoned
    /\ UNCHANGED <<now, execVars, keyVars, cOps, nCalls, fusionVars, frontVars>>

---------------------------------------------------------------------------
(* generateCacheKey on two validated argument records *)

KeyQueries == { <<97>>, <<65>>, <<98>> }              \* "a", "A", "b"
KeyShapes  == { <<"quick", "6h", 5>>, <<"deep", "6h", 5>>,
                <<"quick", "1h", 5>>, <<"quick", "6h", 15>> }
KeyCoins   == { None, Some(<<>>), Some(<<SymB, SymE>>), Some(<<SymE, SymB>>),
                Some(<<SymB>>), Some(<<SymB, SymB>>) }

KeyArgs ==
    { [ query |-> q, analysis_depth |-> sh[1], time_range |-> sh[2],
        max_news_items |-> sh[3], include_prices |-> ip, focus_coins |-> fc,
        stream_updates |-> su ] :
      q \in KeyQueries, sh \in KeyShapes, ip \in BOOLEAN, fc \in KeyCoins,
      su \in BOOLEAN }

KeyCompute ==
    /\ kOut = <<>>
    /\ kOut' = <<generateCacheKey(kA), generateCacheKey(kB)>>
    /\ UNCHANGED <<kA, kB, cacheVars, execVars, pCalls, cOps, raceVars, fusionVars, frontVars>>

---------------------------------------------------------------------------
(* fuseSentiments on one list of signals, and calculateOverallSentiment on  *)
(* the settlement its result is part of                                     *)

\* what aiProcessor.analyzeSentiment answers for an item, the importance the
\* item carries (importance_score || 0.5), and the item whose analysis threw
FusionSignals ==
    { Signal(s, c, i) : s \in {"POSITIVE", "NEGATIVE", "NEUTRAL"},
                        c \in {5, 9}, i \in {5, 10} }
    \cup {FailedSignal}

\* the change_24h values of priceContext: no coin, a rising one, a falling
\* one, two coins
FusionChanges == { <<>>, <<10>>, <<-30>>, <<50, -10>> }

RECURSIVE SeqsUpTo(_, _)
SeqsUpTo(S, n) ==
    IF n = 0 THEN {<<>>}
    ELSE LET shorter == SeqsUpTo(S, n - 1)
         IN  shorter \cup {Append(q, x) : q \in shorter, x \in S}

FusionInputs ==
    [signals : SeqsUpTo(FusionSignals, MaxSignals), changes : FusionChanges]

FuseCompute ==
    /\ fOut = <<>>
    /\ LET fusion == fuseSentiments(fIn.signals, fIn.changes)
       IN  fOut' = << [ stage   |-> fusion,
                       verdict |-> calculateOverallSentiment(
                                      FusedSettlement(fusion), TotalStages) ] >>
    /\ UNCHANGED <<fIn, cacheVars, execVars, keyVars, pCalls, cOps, raceVars, frontVars>>

---------------------------------------------------------------------------
(* WebSocketMcpProtocolHandler: connections, heartbeat, subscriptions *)

ConnIds == 1..MaxConns

\* the heartbeat interval (30 s) and the staleness threshold (60 s), in
\* ticks of 10 s
HeartbeatEvery == 3
StaleAfter     == 6

\* this.connections when no client is connected
NoConnections == [c \in {} |-> 0]

\* a socket the server has not accepted yet
NoSocket == [readyState |-> "NONE", answers |-> FALSE, pinged |-> FALSE,
             closeEvent |-> FALSE, terminated |-> FALSE]

\* a socket the server has accepted.  answers: the peer answers pings;
\* pinged: a ping is on its way to the peer; closeEvent: the 'close' event
\* of the socket has been emitted and handleClose has not run yet;
\* terminated: the server has called ws.terminate()
OpenSocket(answers) ==
    [readyState |-> "OPEN", answers |-> answers, pinged |-> FALSE,
     closeEvent |-> FALSE, terminated |-> FALSE]

---------------------------------------------------------------------------
(* JSON-RPC messages as the adapters receive them *)

Undefined == "undefined"

\* message.params: absent (or null, or a primitive, none of whose properties
\* is defined), or an object.  name: the property "name"; arguments: the
\* property "arguments" if it is there; topics: the property "topics" if it
\* is an array.
NoParams == [ t |-> "absent", name |-> Undefined, arguments |-> None,
              topics |-> None ]
Params(name, arguments, topics) ==
    [ t |-> "object", name |-> name, arguments |-> arguments, topics |-> topics ]

\* a message: text that is no JSON ("invalid"), the JSON value null, a JSON
\* number, string, boolean or array ("other"), or a JSON object with the
\* properties id, jsonrpc, method and params, each of which may be missing
Json(t) == [ t |-> t, id |-> None, jsonrpc |-> Undefined, method |-> Undefined,
             params |-> NoParams ]
Request(id, jsonrpc, method, params) ==
    [ t |-> "object", id |-> id, jsonrpc |-> jsonrpc, method |-> method,
      params |-> params ]

ToolName == "analyze_crypto_sentiment"

\* x || fallback for an id: undefined and 0 are falsy
IdOr(id, fallback) ==
    IF IsSome(id) /\ Get(id).n # 0 THEN Get(id) ELSE fallback

\* a JSON-RPC reply.  kind is "result" or "error"; code is the error code
Result(id)      == [kind |-> "result", id |-> id, code |-> 0]
Error(id, code) == [kind |-> "error", id |-> id, code |-> code]

InvalidRequest == -32600
MethodNotFound == -32601
InvalidParams  == -32602
InternalError  == -32603

---------------------------------------------------------------------------
(* handleMessage *)

\* subscriptions filtered by !unsubTopics.includes(sub)
RECURSIVE Without(_, _)
Without(subscriptions, unsubTopics) ==
    IF Len(subscriptions) = 0 THEN <<>>
    ELSE IF Head(subscriptions) \in Range(unsubTopics)
         THEN Without(Tail(subscriptions), unsubTopics)
         ELSE <<Head(subscriptions)>> \o Without(Tail(subscriptions), unsubTopics)

\* a variant of Subscribed that appends the topics as they come
SubscribedAppend(subscriptions, topics) == subscriptions \o topics

\* [...new Set([...connection.subscriptions, ...topics])]: the elements in
\* the order of their first occurrence
Subscribed(subscriptions, topics) == Dedup(subscriptions \o topics)

\* What handleMessage does with a message, up to the call of execute:
\*   - thrown: an error is thrown inside the try block, and the catch block
\*     sends sendError(connectionId, 'error', -32603, ...)
\*   - call: execute is awaited with the arguments and the stream flag
\*   - otherwise the response with the result is sent
\* together with the connection's subscriptions afterwards.
wsHandle(subscriptions, msg, t) ==
    LET requestId == IdOr(msg.id, WsId(t))
        caught == [ outcome |-> "thrown", reply |-> Error(ErrorId, InternalError),
                    subscriptions |-> subscriptions, args |-> NoArgs,
                    requestId |-> requestId ]
        done   == [ outcome |-> "done", reply |-> Result(requestId),
                    subscriptions |-> subscriptions, args |-> NoArgs,
                    requestId |-> requestId ]
    IN  CASE msg.t \in {"invalid", "null"} -> caught
          [] msg.method \in {"initialize", "tools/list", "ping"} -> done
          [] msg.method = "tools/call" ->
                IF msg.params.name = ToolName
                THEN [done EXCEPT !.outcome = "call",
                                  !.args = OrElse(msg.params.arguments, NoArgs)]
                ELSE caught
          [] msg.method = "subscribe" ->
                IF IsSome(msg.params.topics)
                THEN [done EXCEPT !.subscriptions =
                         Subscribed(subscriptions, Get(msg.params.topics))]
                ELSE caught
          [] msg.method = "unsubscribe" ->
                IF IsSome(msg.params.topics)
                THEN [done EXCEPT !.subscriptions =
                         Without(subscriptions, Get(msg.params.topics))]
                ELSE caught
          [] OTHER -> caught

---------------------------------------------------------------------------
(* Connections *)

MaxBeatNow   == 12   \* the clock of the connection model stops here
MaxDelivered == 2    \* messages delivered to one connection
MaxRequests  == 3    \* subscribe and unsubscribe requests of one connection
MaxProgress  == 1    \* progress callbacks of one execute() call

\* what the connection handler leaves alone
behindConn == <<useRedis, connected, memoryCache, redisStore, execVars,
                keyVars, pCalls, cOps, raceVars, fusionVars, stageVars, routed,
                backVars>>

\* a variant of sendMessage without the guard
sendMessageUnguarded(conns, socks, deliv, c, m) ==
    [deliv EXCEPT ![c] = Append(@, m)]

\* sendMessage: nothing is sent unless the connection is registered and its
\* socket is open; an error of ws.send is caught and logged
sendMessage(conns, socks, deliv, c, m) ==
    IF c \notin DOMAIN conns \/ socks[c].readyState # "OPEN"
    THEN deliv
    ELSE [deliv EXCEPT ![c] = Append(@, m)]

\* the connections without connection c (this.connections.delete)
Delete(conns, c) == [d \in DOMAIN conns \ {c} |-> conns[d]]

\* the messages sent to connection c so far leave room for another one
Room(c, max) == Len(delivered[c]) < max

\* handleConnection: the connection is registered with lastPing = Date.now()
\* and the welcome message is sent
Connect(c, answers) ==
    /\ sockets[c].readyState = "NONE"
    /\ now + StaleAfter + HeartbeatEvery <= MaxBeatNow
    /\ LET conns == [d \in DOMAIN connections \cup {c} |->
                        IF d = c
                        THEN [subscriptions |-> <<>>, lastPing |-> now,
                              authenticated |-> FALSE]
                        ELSE connections[d]]
           socks == [sockets EXCEPT ![c] = OpenSocket(answers)]
       IN  /\ connections' = conns
           /\ sockets' = socks
           /\ delivered' = sendMessage(conns, socks, delivered, c, "welcome")
    /\ UNCHANGED <<now, inflight, nextBeat, behindConn>>

\* ws.on('pong'): the peer has answered a ping
Pong(c) ==
    /\ sockets[c].readyState = "OPEN"
    /\ sockets[c].pinged
    /\ sockets[c].answers
    /\ sockets' = [sockets EXCEPT ![c].pinged = FALSE]
    /\ connections' = IF c \in DOMAIN connections
                      THEN [connections EXCEPT ![c].lastPing = now]
                      ELSE connections
    /\ UNCHANGED <<now, delivered, inflight, nextBeat, behindConn>>

\* the peer closes the socket, or the network does: the socket is no longer
\* open and its 'close' event is queued
SocketCloses(c) ==
    /\ sockets[c].readyState = "OPEN"
    /\ sockets' = [sockets EXCEPT ![c].readyState = "CLOSED",
                                  ![c].closeEvent = TRUE]
    /\ UNCHANGED <<now, connections, delivered, inflight, nextBeat, behindConn>>

\* handleClose
HandleClose(c) ==
    /\ sockets[c].closeEvent
    /\ sockets' = [sockets EXCEPT ![c].closeEvent = FALSE]
    /\ connections' = Delete(connections, c)
    /\ UNCHANGED <<now, delivered, inflight, nextBeat, behindConn>>

\* a variant of Stale with the threshold doubled
StaleLate(t, lastPing) == t - lastPing > 2 * StaleAfter

\* now - connection.lastPing > 60000
Stale(t, lastPing) == t - lastPing > StaleAfter

\* what one heartbeat does to connection c: an open socket is terminated if
\* it is stale and pinged if it is not; a socket that is not open is dropped
Terminated(c) ==
    sockets[c].readyState = "OPEN" /\ Stale(now, connections[c].lastPing)
Dropped(c) == sockets[c].readyState # "OPEN" \/ Terminated(c)

\* startHeartbeat: the body of the interval callback, over all connections
Heartbeat ==
    /\ now = nextBeat
    /\ nextBeat' = nextBeat + HeartbeatEvery
    /\ connections' = [d \in {c \in DOMAIN connections : ~Dropped(c)} |->
                          connections[d]]
    /\ sockets' = [c \in ConnIds |->
                     IF c \notin DOMAIN connections THEN sockets[c]
                     ELSE IF Terminated(c)
                          THEN [sockets[c] EXCEPT !.readyState = "CLOSED",
                                                  !.closeEvent = TRUE,
                                                  !.terminated = TRUE]
                          ELSE IF sockets[c].readyState = "OPEN"
                               THEN [sockets[c] EXCEPT !.pinged = TRUE]
                               ELSE sockets[c]]
    /\ UNCHANGED <<now, delivered, inflight, behindConn>>

\* time passes, up to the next firing of the heartbeat timer
ConnTick ==
    /\ now < nextBeat
    /\ now < MaxBeatNow
    /\ now' = now + 1
    /\ UNCHANGED <<connVars, behindConn>>

\* no call is awaited on the connection
NoCall == None

\* handleMessage for a message that arrived on the socket of connection c.
\* A tools/call of the tool is left awaiting execute.
HandleMessage(c, msg) ==
    /\ sockets[c].readyState # "NONE"
    /\ IF c \notin DOMAIN connections
       THEN UNCHANGED <<connections, delivered, inflight>>
       ELSE LET h == wsHandle(connections[c].subscriptions, msg, now)
                conns == [connections EXCEPT
                            ![c].subscriptions = h.subscriptions,
                            ![c].authenticated =
                                @ \/ (h.outcome = "done" /\ msg.method = "initialize")]
            IN  /\ connections' = conns
                /\ IF h.outcome = "call"
                   THEN /\ inflight[c] = NoCall
                        /\ inflight' = [inflight EXCEPT ![c] =
                              Some([ requestId |-> h.requestId,
                                     stream |-> OrElse(h.args.stream_updates, FALSE),
                                     left |-> IF OrElse(h.args.stream_updates, FALSE)
                                              THEN MaxProgress ELSE 0,
                                     phase |-> "running" ])]
                        /\ delivered' =
                              IF OrElse(h.args.stream_updates, FALSE)
                              THEN sendMessage(conns, sockets, delivered, c, "progress")
                              ELSE delivered
                   ELSE /\ delivered' = sendMessage(conns, sockets, delivered, c,
                                                    h.reply.kind)
                        /\ UNCHANGED inflight
    /\ UNCHANGED <<now, sockets, nextBeat, behindConn>>

\* execute calls the progress callback of a streaming call: sendProgress
ExecuteProgress(c) ==
    /\ IsSome(inflight[c])
    /\ Get(inflight[c]).phase = "running"
    /\ Get(inflight[c]).left > 0
    /\ inflight' = [inflight EXCEPT ![c] = Some([Get(@) EXCEPT !.left = @ - 1])]
    /\ delivered' = sendMessage(connections, sockets, delivered, c, "progress")
    /\ UNCHANGED <<now, connections, sockets, nextBeat, behindConn>>

\* execute settles and handleMessage goes on: the response, or the error of
\* the catch block, is sent
ExecuteSettles(c) ==
    /\ IsSome(inflight[c])
    /\ Get(inflight[c]).phase = "running"
    /\ Get(inflight[c]).left = 0
    /\ inflight' = [inflight EXCEPT ![c] = Some([Get(@) EXCEPT !.phase = "completed"])]
    /\ delivered' = sendMessage(connections, sockets, delivered, c,
                        WsRespond(Get(inflight[c]).requestId, CatchOutcome("")).type)
    /\ UNCHANGED <<now, connections, sockets, nextBeat, behindConn>>

\* broadcast(message, topic): to every open connection subscribed to the
\* topic, or to every open connection if no topic is given
RECURSIVE broadcast(_, _, _, _, _)
broadcast(conns, socks, deliv, todo, topic) ==
    IF todo = {} THEN deliv
    ELSE LET c == CHOOSE d \in todo : \A e \in todo : d <= e
             to == socks[c].readyState = "OPEN"
                   /\ (topic = None \/ Get(topic) \in Range(conns[c].subscriptions))
         IN  broadcast(conns, socks,
                       IF to THEN sendMessage(conns, socks, deliv, c, "broadcast")
                       ELSE deliv,
                       todo \ {c}, topic)

Broadcast(topic) ==
    /\ delivered' = broadcast(connections, sockets, delivered, DOMAIN connections, topic)
    /\ UNCHANGED <<now, connections, sockets, inflight, nextBeat, behindConn>>

---------------------------------------------------------------------------
(* The HTTP JSON-RPC, batch and REST adapters, and the WebSocket adapter,  *)
(* as routers: which reply a message gets and what execute is called with. *)
(* execute itself is taken by its outcome (CatchOutcome).                  *)

MaxRouted == 2    \* requests answered per behaviour
MaxBatch  == 3    \* entries of one batch

\* ids the adapters make up: `http-mcp-${Date.now()}`, Date.now(),
\* `batch-${Date.now()}`, and the id of an entry that has none
HttpId(t)   == [kind |-> "http-mcp", n |-> t]
TimeId(t)   == [kind |-> "time", n |-> t]
BatchId(t)  == [kind |-> "batch", n |-> t]
UndefinedId == [kind |-> "undefined", n |-> 0]

\* the status of the global error handler's response
HandlerStatus == 500
\* res.status(500).json({error: 'Internal Server Error', ...})
HandlerError == [kind |-> "error", id |-> [kind |-> "handler", n |-> 0],
                 code |-> HandlerStatus]

\* what an adapter does with one message: the reply it sends (if any), the
\* arguments it calls execute with (if it does), and whether an exception
\* escapes it
Routed(reply, invoked) == [reply |-> reply, invoked |-> invoked, escapes |-> FALSE]
Escapes(invoked)       == [reply |-> None, invoked |-> invoked, escapes |-> TRUE]

\* reading a property of null or undefined throws a TypeError
Unreadable(message) == message.t \in {"null", "invalid"}

\* the reply to a call of the tool whose execute has settled
Settled(requestId, failCode) ==
    IF CatchOutcome("") = "resolved"
    THEN Result(requestId)
    ELSE Error(requestId, failCode)

\* POST /mcp
httpMcp(message, t) ==
    IF Unreadable(message) THEN Escapes(None)
    ELSE
    LET requestId == IdOr(message.id, HttpId(t))
    IN  CASE message.jsonrpc # "2.0" ->
                Routed(Some(Error(requestId, InvalidRequest)), None)
          [] message.method = Undefined ->
                Routed(Some(Error(requestId, InvalidRequest)), None)
          [] message.method \in {"initialize", "tools/list"} ->
                Routed(Some(Result(requestId)), None)
          [] message.method = "tools/call" ->
                IF message.params.name = Undefined
                THEN Routed(Some(Error(requestId, InvalidParams)), None)
                ELSE IF message.params.name = ToolName
                THEN Routed(Some(Settled(requestId, InternalError)),
                            Some(OrElse(message.params.arguments, NoArgs)))
                ELSE Routed(Some(Error(requestId, MethodNotFound)), None)
          [] OTHER -> Routed(Some(Error(requestId, MethodNotFound)), None)

\* processSingleRequest: the message it resolves with, or the error thrown
processSingleRequest(message, t) ==
    IF Unreadable(message) THEN Escapes(None)
    ELSE
    LET requestId == IdOr(message.id, TimeId(t))
    IN  IF message.method = "tools/call" /\ message.params.name = ToolName
        THEN IF CatchOutcome("") = "resolved"
             THEN Routed(Some(Result(requestId)),
                         Some(OrElse(message.params.arguments, NoArgs)))
             ELSE Escapes(Some(OrElse(message.params.arguments, NoArgs)))
        ELSE Routed(Some(Error(requestId, MethodNotFound)), None)

\* POST /mcp/batch, the function mapped over the requests: what
\* processSingleRequest resolves with, or the error object of the catch
\* block, which reads message.id
batchEntry(message, t) ==
    LET r == processSingleRequest(message, t)
    IN  IF ~r.escapes THEN r
        ELSE IF Unreadable(message) THEN Escapes(r.invoked)
        ELSE Routed(Some(Error(OrElse(message.id, UndefinedId), InternalError)),
                    r.invoked)

\* POST /mcp/batch: the array of the entries' responses, or the single
\* error of the outer catch block if one of the entries' promises rejects
batch(requests, t) ==
    LET rs == [i \in 1..Len(requests) |-> batchEntry(requests[i], t)]
    IN  IF \E i \in 1..Len(requests) : rs[i].escapes
        THEN [ shape |-> "object",
               replies |-> <<Error(BatchId(t), InternalError)>>,
               invoked |-> [i \in 1..Len(requests) |-> rs[i].invoked] ]
        ELSE [ shape |-> "array",
               replies |-> [i \in 1..Len(requests) |-> Get(rs[i].reply)],
               invoked |-> [i \in 1..Len(requests) |-> rs[i].invoked] ]

\* handleMessage, with the reply it sends once execute has settled
wsRoute(message, t) ==
    LET h == wsHandle(<<>>, message, t)
    IN  IF h.outcome = "call"
        THEN Routed(Some(IF CatchOutcome("") = "resolved"
                         THEN Result(h.requestId)
                         ELSE Error(ErrorId, InternalError)),
                    Some(h.args))
        ELSE Routed(Some(h.reply), None)

\* a body of POST /tools/analyze_crypto_sentiment: its own properties as
\* tool arguments, and its property "arguments" if it has one
NoBody == [fields |-> NoArgs, arguments |-> None]
Body(fields, arguments) == [fields |-> fields, arguments |-> arguments]

\* POST /tools/analyze_crypto_sentiment: execute(req.body?.arguments || {})
restArguments(body) == OrElse(body.arguments, NoArgs)

\* POST /tools/analyze_crypto_sentiment: the envelope, success or not, with
\* its request_id
restReply(t) ==
    IF RestRespond(CatchOutcome("")).success
    THEN Result([kind |-> "analyze-sentiment", n |-> t])
    ELSE Error([kind |-> "analyze-sentiment", n |-> t], 0)

\* an answered request.  shape: the response is one object, an array of
\* objects, or the answer of the error handler to a body that was rejected
Answered(via, request, body, shape, replies, invoked, escaped) ==
    [ via |-> via, request |-> request, body |-> body, shape |-> shape,
      replies |-> replies, invoked |-> invoked, escaped |-> escaped ]

\* an exception that escaped a handler ends the process
\* (process.on('unhandledRejection'))
Up == \A i \in 1..Len(routed) : ~routed[i].escaped

behindRoute == <<cacheVars, execVars, keyVars, pCalls, cOps, raceVars,
                 fusionVars, stageVars, connVars, backVars>>

\* one message posted to /mcp or sent on a WebSocket connection
Single(via, message) ==
    /\ Up
    /\ via \in {"mcp", "ws"}
    /\ LET r == IF via = "mcp" THEN httpMcp(message, now) ELSE wsRoute(message, now)
       IN  routed' = Append(routed,
              Answered(via, <<message>>, NoBody, "object",
                       IF IsSome(r.reply) THEN <<Get(r.reply)>> ELSE <<>>,
                       <<r.invoked>>, r.escapes))
    /\ UNCHANGED behindRoute

\* a body express.json rejects (no JSON, or JSON that is neither an object
\* nor an array): the global error handler answers
BodyRejected(via, message) ==
    /\ Up
    /\ via \in {"mcp", "batch"}
    /\ message.t \in {"invalid", "null"}
    /\ routed' = Append(routed,
          Answered(via, <<message>>, NoBody, "rejected", <<HandlerError>>,
                   <<None>>, FALSE))
    /\ UNCHANGED behindRoute

\* an array posted to /mcp/batch
PostBatch(requests) ==
    /\ Up
    /\ LET b == batch(requests, now)
       IN  routed' = Append(routed,
              Answered("batch", requests, NoBody, b.shape, b.replies, b.invoked,
                       FALSE))
    /\ UNCHANGED behindRoute

\* a body posted to /tools/analyze_crypto_sentiment
PostTool(body) ==
    /\ Up
    /\ routed' = Append(routed,
          Answered("rest", <<>>, body, "object",
                   <<restReply(now)>>, <<Some(restArguments(body))>>,
                   FALSE))
    /\ UNCHANGED behindRoute


---------------------------------------------------------------------------
(* PriceService.fetchCoinGeckoPrices, called directly *)

HttpOk          == 200
TooManyRequests == 429
ServerError     == 500
\* no response at all: axios rejects without error.response
NoResponse      == 0

\* setTimeout(resolve, 2000), in milliseconds
RateLimitPause == 2000

RateLimitMessage == "CoinGecko rate limit exceeded"
UpstreamMessage  == "Request failed"

\* the ids symbolsToIds finds for two symbols
GeckoIds == [s \in {"BTC", "ETH"} |-> IF s = "BTC" THEN "bitcoin" ELSE "ethereum"]

\* the coinIds argument: a part of the table
GeckoCoinIds == { [s \in S |-> GeckoIds[s]] : S \in SUBSET (DOMAIN GeckoIds) }

\* what the API answers to one request: a status and, with 200, the usd
\* price of some of the ids
GeckoAnswers ==
    { [status |-> HttpOk, data |-> [i \in I |-> 7]] : I \in {{}, {"bitcoin"}} }
    \cup { [status |-> s, data |-> Empty] :
             s \in {TooManyRequests, ServerError, NoResponse} }

\* fetchCoinGeckoPrices(coinIds), when the API would answer its i-th request
\* with answers[i]: the number of requests sent, the time spent waiting and
\* the way the promise settles
fetchCoinGeckoPrices(coinIds, answers) ==
    LET response == answers[1]
        priced   == {s \in DOMAIN coinIds : coinIds[s] \in DOMAIN response.data}
        none     == [s \in {} |-> 0]
    IN  IF DOMAIN coinIds = {}
        THEN [ requests |-> 0, waited |-> 0, outcome |-> "resolved",
               prices |-> none, message |-> "" ]
        ELSE IF response.status = HttpOk
        THEN [ requests |-> 1, waited |-> 0, outcome |-> "resolved",
               prices |-> [s \in priced |-> response.data[coinIds[s]]],
               message |-> "" ]
        ELSE IF response.status = TooManyRequests
        THEN [ requests |-> 1, waited |-> RateLimitPause, outcome |-> "rejected",
               prices |-> none, message |-> RateLimitMessage ]
        ELSE [ requests |-> 1, waited |-> 0, outcome |-> "rejected",
               prices |-> none, message |-> UpstreamMessage ]

\* what the processes around the tool leave alone
behindBack == <<cacheVars, execVars, keyVars, pCalls, cOps, raceVars,
                fusionVars, stageVars, routed, connVars>>

\* await this.fetchCoinGeckoPrices(coinIds)
GeckoCall(coinIds, answers) ==
    /\ Len(gecko) < MaxGecko
    /\ gecko' = Append(gecko, [coinIds |-> coinIds, answers |-> answers]
                              @@ fetchCoinGeckoPrices(coinIds, answers))
    /\ UNCHANGED <<behindBack, runs, stdio, served>>

---------------------------------------------------------------------------
(* The STDIO server: CryptoSentimentMCPServer and the logger it shares      *)

\* winston's npm levels in use, most severe first
Levels == <<"error", "warn", "info", "debug">>
Severity(level) == CHOOSE i \in 1..Len(Levels) : Levels[i] = level

\* level: process.env.LOG_LEVEL || 'info'
LogLevels == Range(Levels)
loggerLevel(env) == OrElse(env, "info")

\* new winston.transports.Console({format}): no stderrLevels are given, and
\* the transport's default is none
stderrLevels == {}

\* the stream the Console transport writes a line of a level to
ConsoleStream(level) == IF level \in stderrLevels THEN "stderr" ELSE "stdout"

\* one line of output: a JSON-RPC message, or text
JsonLine(what)        == [kind |-> "json", level |-> "", text |-> what]
LogLine(level, text)  == [kind |-> "log", level |-> level, text |-> text]
TextLine(text)        == [kind |-> "text", level |-> "", text |-> text]

\* logger.<level>(text): the two streams afterwards
log(out, threshold, level, text) ==
    IF Severity(level) > Severity(threshold) THEN out
    ELSE IF ConsoleStream(level) = "stderr"
    THEN [out EXCEPT !.stderr = Append(@, LogLine(level, text))]
    ELSE [out EXCEPT !.stdout = Append(@, LogLine(level, text))]

\* several logger calls in a row, each <<level, text>>
RECURSIVE logAll(_, _, _)
logAll(out, threshold, entries) ==
    IF Len(entries) = 0 THEN out
    ELSE logAll(log(out, threshold, Head(entries)[1], Head(entries)[2]),
                threshold, Tail(entries))

\* the transport writes a response: process.stdout.write(json + '\n')
respond(out, what) == [out EXCEPT !.stdout = Append(@, JsonLine(what))]

\* console.error(text)
consoleError(out, text) == [out EXCEPT !.stderr = Append(@, TextLine(text))]

NoStdio == [ state |-> "boot", level |-> "info", read |-> 0,
             stdout |-> <<>>, stderr |-> <<>> ]

\* start(): validateConfig() throws or not; the cache connects or falls back
StdioStart(env, valid, redisOk) ==
    /\ stdio.state = "boot"
    /\ LET t  == loggerLevel(env)
           s0 == [stdio EXCEPT !.level = t]
       IN  stdio' =
             IF ~valid
             THEN [logAll(s0, t, << <<"error", "Failed to start MCP server">> >>)
                     EXCEPT !.state = "exited"]
             ELSE [consoleError(
                     logAll(s0, t,
                       << <<"info", "Configuration validated successfully">> >>
                       \o (IF redisOk THEN << <<"info", "Connected to Redis cache">> >>
                           ELSE << <<"warn", "Failed to connect to Redis, using memory cache">> >>)
                       \o << <<"info", "Cache manager connected">>,
                             <<"info", "CryptoSentiment Intelligence MCP Server started">> >>),
                     "CryptoSentiment Intelligence MCP Server running on STDIO")
                   EXCEPT !.state = "running"]
    /\ UNCHANGED <<behindBack, runs, served, gecko>>

\* the requests the server reads from stdin.  ran: how execute() went
StdioRequests ==
    { [method |-> "tools/list", name |-> "", ran |-> "none"] }
    \cup { [method |-> "tools/call", name |-> "analyze_crypto_sentiment", ran |-> r] :
             r \in {"completed", "cached", "degraded", "failed"} }
    \cup { [method |-> "tools/call", name |-> "other", ran |-> "none"] }

\* what execute() logs (analyze-crypto-sentiment.ts 62, 76, 148, 161, 274)
executeLogs(ran) ==
    << <<"info", "Starting crypto sentiment analysis">> >>
    \o (IF ran = "cached" THEN << <<"info", "Returning cached analysis result">> >>
        ELSE IF ran = "degraded"
        THEN << <<"warn", "Analysis component failed">>,
                <<"info", "Crypto sentiment analysis completed">> >>
        ELSE IF ran = "failed"
        THEN << <<"error", "Crypto sentiment analysis failed">> >>
        ELSE << <<"info", "Crypto sentiment analysis completed">> >>)

\* the handlers of ListToolsRequestSchema and CallToolRequestSchema, and the
\* response the transport writes
StdioRequest(req) ==
    /\ stdio.state = "running"
    /\ stdio.read < MaxStdio
    /\ LET t == stdio.level
           s0 == [stdio EXCEPT !.read = @ + 1]
       IN  stdio' =
             IF req.method = "tools/list"
             THEN respond(logAll(s0, t, << <<"info", "Request completed">> >>),
                          "tools")
             ELSE IF req.name = "analyze_crypto_sentiment"
             THEN respond(logAll(s0, t,
                            << <<"info", "Tool execution started">> >>
                            \o executeLogs(req.ran)
                            \o << <<"info", "Request completed">> >>),
                          "content")
             ELSE respond(logAll(s0, t,
                            << <<"info", "Tool execution started">>,
                               <<"error", "Request failed">>,
                               <<"error", "Tool execution failed">> >>),
                          "isError")
    /\ UNCHANGED <<behindBack, runs, served, gecko>>

---------------------------------------------------------------------------
(* The HTTP server: CryptoSentimentHttpServer, its middleware and routes    *)

StrTrue  == <<116, 114, 117, 101>>
StrTRUE  == <<84, 82, 85, 69>>
StrFalse == <<102, 97, 108, 115, 101>>
StrOne   == <<49>>

\* getBooleanEnv(key, defaultValue), on the value of process.env[key]
getBooleanEnv(value, defaultValue) ==
    IF ~IsSome(value) THEN defaultValue
    ELSE toLowerCase(Get(value)) = StrTrue \/ Get(value) = StrOne

\* config.protocols
protocols(env) ==
    [ http      |-> getBooleanEnv(env.ENABLE_HTTP_REST, TRUE),
      websocket |-> getBooleanEnv(env.ENABLE_WEBSOCKET, TRUE),
      rest      |-> getBooleanEnv(env.ENABLE_HTTP_MCP, TRUE) ]

\* RestApiHandler.setupRoutes
RestRoutes ==
    { <<"GET", "/health">>, <<"GET", "/status">>, <<"GET", "/tools">>,
      <<"GET", "/tools/:toolName/schema">>,
      <<"POST", "/tools/analyze_crypto_sentiment">>,
      <<"POST", "/tools/:toolName">>, <<"GET", "/docs">>, <<"GET", "/metrics">> }

\* HttpMcpProtocolHandler.setupRoutes
McpRoutes == { <<"POST", "/mcp">>, <<"POST", "/mcp/batch">> }

\* CryptoSentimentHttpServer.setupRoutes: the routes of the app
setupRoutes(p) ==
    { <<"GET", "/">> }
    \cup (IF p.rest THEN RestRoutes ELSE {})
    \cup (IF p.http THEN McpRoutes ELSE {})

WsPath == "/mcp/ws"

\* the routes whose handler runs the tool
ToolRoutes == { <<"POST", "/tools/analyze_crypto_sentiment">> } \cup McpRoutes

Unauthorized == 401
NotFound     == 404
Switching    == 101

\* the API key middleware: next() is called
passes(env, req) ==
    \/ req.path = "/health" \/ req.path = "/status" \/ req.path = "/docs"
    \/ ~(IsSome(env.REQUIRED_API_KEY) /\ Get(env.REQUIRED_API_KEY) # "")
    \/ (IsSome(req.key) /\ Get(req.key) # ""
        /\ Get(req.key) = Get(env.REQUIRED_API_KEY))

\* the app answers one request: the middleware, the routes, the 404 handler
handle(env, routes, req) ==
    LET route == <<req.method, req.path>>
    IN  IF ~passes(env, req)
        THEN [status |-> Unauthorized, executed |-> FALSE]
        ELSE IF route \in routes
        THEN [status |-> HttpOk, executed |-> route \in ToolRoutes]
        ELSE [status |-> NotFound, executed |-> FALSE]

NoServer == [ listening |-> FALSE,
              env |-> [ENABLE_HTTP_REST |-> None, ENABLE_HTTP_MCP |-> None,
                       ENABLE_WEBSOCKET |-> None, REQUIRED_API_KEY |-> None],
              routes |-> {}, wss |-> FALSE, conn |-> None, answers |-> <<>> ]

\* the environments the server is started in
EnvFlags == {None, Some(StrTrue), Some(StrTRUE), Some(StrFalse), Some(StrOne)}
ServerEnvs ==
    [ ENABLE_HTTP_REST : EnvFlags, ENABLE_HTTP_MCP : EnvFlags,
      ENABLE_WEBSOCKET : {None, Some(StrFalse)},
      REQUIRED_API_KEY : {None, Some("secret")} ]

\* the requests clients send
ClientKeys == {None, Some("secret"), Some("guess")}
HttpRequests ==
    [ method : {"GET"}, path : {"/", "/health", "/status", "/docs", "/tools"},
      key : ClientKeys ]
    \cup [ method : {"POST"},
           path : {"/tools/analyze_crypto_sentiment", "/mcp", "/mcp/batch"},
           key : ClientKeys ]

\* new CryptoSentimentHttpServer() and start(): setupRoutes, and
\* wsHandler.initialize(server) if config.protocols.websocket
Listen(env) ==
    /\ ~served.listening
    /\ served' = [served EXCEPT !.listening = TRUE, !.env = env,
                                !.routes = setupRoutes(protocols(env)),
                                !.wss = protocols(env).websocket]
    /\ UNCHANGED <<behindBack, runs, stdio, gecko>>

Answer(via, req, r) ==
    [via |-> via, method |-> req.method, path |-> req.path, key |-> req.key,
     status |-> r.status, executed |-> r.executed]

\* one HTTP request
HttpRequest(req) ==
    /\ served.listening
    /\ Len(served.answers) < MaxServed
    /\ served' = [served EXCEPT !.answers =
                     Append(@, Answer("http", req,
                                      handle(served.env, served.routes, req)))]
    /\ UNCHANGED <<behindBack, runs, stdio, gecko>>

\* a client asks for an upgrade at /mcp/ws.  The WebSocketServer, if there is
\* one, takes the server's 'upgrade' event and emits 'connection'; without
\* one the request goes to the app like any other
WsUpgrade(key) ==
    /\ served.listening
    /\ served.conn = None
    /\ Len(served.answers) < MaxServed
    /\ LET req == [method |-> "GET", path |-> WsPath, key |-> key]
       IN  IF served.wss
           THEN served' = [served EXCEPT
                    !.conn = Some(key),
                    !.answers = Append(@, Answer("ws", req,
                                    [status |-> Switching, executed |-> FALSE]))]
           ELSE served' = [served EXCEPT
                    !.answers = Append(@, Answer("http", req,
                                    handle(served.env, served.routes, req)))]
    /\ UNCHANGED <<behindBack, runs, stdio, gecko>>

\* handleMessage: a tools/call of the tool on the accepted connection
WsToolCall ==
    /\ served.conn # None
    /\ Len(served.answers) < MaxServed
    /\ LET req == [method |-> "tools/call", path |-> WsPath,
                   key |-> Get(served.conn)]
       IN  served' = [served EXCEPT !.answers =
                        Append(@, Answer("ws", req,
                                  [status |-> HttpOk, executed |-> TRUE]))]
    /\ UNCHANGED <<behindBack, runs, stdio, gecko>>

---------------------------------------------------------------------------
(* execute() calls that overlap in time.  Each await of execute is a point  *)
(* where another call may run.                                              *)

RunIds == {1, 2}

NoRun == [ pc |-> "idle", validatedArgs |-> NoValid, startTime |-> 0,
           hit |-> FALSE, ran |-> FALSE, wrote |-> "none",
           verdict |-> NoVerdict, returned |-> None ]

NoRuns == [ of |-> [r \in RunIds |-> NoRun], events |-> <<>> ]

\* the news the overlapping calls fetch
RunNews == [NoNews EXCEPT !.n = 1]

RunStep(r, run, what) ==
    runs' = [runs EXCEPT !.of[r] = run,
                         !.events = Append(@, [run |-> r, what |-> what])]

\* execute(args) up to its first await: parse, generateCacheKey
RunCall(r, a) ==
    /\ pc = "idle"
    /\ runs.of[r].pc = "idle"
    /\ ~ParseThrows(a)
    /\ RunStep(r, [NoRun EXCEPT
                     !.pc = "cache_read",
                     !.startTime = now,
                     !.validatedArgs =
                         [AnalysisRequestSchema(a) EXCEPT
                            !.focus_coins =
                                focusCoinsAfterKey(AnalysisRequestSchema(a))]],
               "call")
    /\ UNCHANGED <<behindBack, stdio, served, gecko>>

\* what the overlapping calls leave alone, the cache apart
besideRuns == <<execVars, keyVars, pCalls, cOps, raceVars, fusionVars,
                stageVars, routed, connVars, stdio, served, gecko, now>>

\* const cachedResult = await cacheManager.getCachedAnalysis(cacheKey);
\* if (cachedResult) return cachedResult
RunRead(r, getFault, delFault) ==
    /\ runs.of[r].pc = "cache_read"
    /\ LET run == runs.of[r]
           g   == CacheGet(memoryCache, redisStore, AnalysisKey(run.validatedArgs),
                           getFault, delFault)
       IN  /\ memoryCache' = g.mem
           /\ redisStore' = g.redis
           /\ useRedis' = OnOpError(useRedis, g.fault)
           /\ connected' = OnOpError(connected, g.fault)
           /\ IF g.tier # "none"
              THEN RunStep(r, [run EXCEPT !.pc = "done", !.hit = TRUE,
                                          !.returned = Some(g.value)], "read")
              ELSE RunStep(r, [run EXCEPT !.pc = "pipeline"], "read")
    /\ UNCHANGED besideRuns

\* fetchNews, the prices, the five stages and aggregateResults
RunPipeline(r, f) ==
    /\ runs.of[r].pc = "pipeline"
    /\ LET run == runs.of[r]
       IN  RunStep(r, [run EXCEPT
                         !.pc = "cache_write", !.ran = TRUE,
                         !.verdict = aggregateResults(f, RunNews, run.validatedArgs,
                                                      run.startTime)],
                   "pipeline")
    /\ UNCHANGED <<behindBack, stdio, served, gecko>>

\* await cacheManager.cacheAnalysis(cacheKey, finalResult); return finalResult
RunWrite(r, setFault) ==
    /\ runs.of[r].pc = "cache_write"
    /\ LET run == runs.of[r]
           w   == CacheSet(memoryCache, redisStore, AnalysisKey(run.validatedArgs),
                           run.verdict, AnalysisTtl, setFault)
       IN  /\ memoryCache' = w.mem
           /\ redisStore' = w.redis
           /\ useRedis' = OnOpError(useRedis, w.fault)
           /\ connected' = OnOpError(connected, w.fault)
           /\ RunStep(r, [run EXCEPT !.pc = "done", !.wrote = SetTier(setFault),
                                     !.returned = Some(run.verdict)], "write")
    /\ UNCHANGED besideRuns

\* no process around the tool has started
BackIdle ==
    /\ runs = NoRuns
    /\ stdio = NoStdio
    /\ served = NoServer
    /\ gecko = <<>>
---------------------------------------------------------------------------
(* Specifications *)

\* no stage has been run, no request answered, no client connected
FrontIdle ==
    /\ sIn = NoStageInput
    /\ sOut = <<>>
    /\ routed = <<>>
    /\ connections = NoConnections
    /\ sockets = [c \in ConnIds |-> NoSocket]
    /\ delivered = [c \in ConnIds |-> <<>>]
    /\ inflight = [c \in ConnIds |-> None]
    /\ nextBeat = HeartbeatEvery
    /\ BackIdle

HarnessIdle ==
    /\ FrontIdle
    /\ kA = NoValid
    /\ kB = NoValid
    /\ kOut = <<>>
    /\ pCalls = <<>>
    /\ cOps = <<>>
    /\ nCalls = <<>>
    /\ abandoned = <<>>
    /\ fIn = NoSignals
    /\ fOut = <<>>

Init == CacheInit /\ ExecInit /\ HarnessIdle

\* One execute() call, every input varied.  Within a single call no entry
\* grows old, so the clock stands still.
Next ==
    \/ \E ok \in BOOLEAN : Startup(ok)
    \/ \E a \in ExecArgs : Len(calls) < MaxCalls /\ Call(a)
    \/ Validate
    \/ \E gf \in Faults, df \in Faults : ReadAnalysisCache(gf, df)
    \/ \E in \in NewsInputs(Faults, BOOLEAN, SrcOutcomes) : FetchNews(in)
    \/ \E in \in PriceInputs(Faults, BOOLEAN, SUBSET {SymB, SymE}, MidDraws) :
            FetchPrices(in)
    \/ \E f \in Settlements : FanOut(f, StageOrder)
    \/ Aggregate
    \/ \E sf \in Faults : WriteAnalysisCache(sf)
    \/ Catch
    \/ \E via \in Adapters : Return(via)
    \/ RedisEvents

Spec == Init /\ [][Next]_vars

\* Repeated requests: the same valid query in two spellings, without prices,
\* news sources that answer, stages that all fulfil with one of two
\* sentiments.  No such call fetches prices or reaches the catch block.
RepeatArgs ==
    { [NoArgs EXCEPT !.query = Some(<<98>>), !.include_prices = Some(FALSE)],
      [NoArgs EXCEPT !.query = Some(<<66>>), !.include_prices = Some(FALSE)] }
RepeatSettlements ==
    { [st \in Stages |-> IF st = "sentiment"
                         THEN [status |-> "fulfilled", overallSentiment |-> o, high |-> 0,
                               defaulted |-> FALSE]
                         ELSE Plain] : o \in {"BULLISH", "BEARISH"} }

RepeatNext ==
    \/ \E ok \in BOOLEAN : Startup(ok)
    \/ \E a \in RepeatArgs : Len(calls) < MaxRepeat /\ Call(a)
    \/ Validate
    \/ \E gf \in Faults, df \in Faults : ReadAnalysisCache(gf, df)
    \/ \E in \in NewsInputs(Faults, {FALSE}, {Some(1)}) : FetchNews(in)
    \/ \E f \in RepeatSettlements : FanOut(f, StageOrder)
    \/ Aggregate
    \/ \E sf \in Faults : WriteAnalysisCache(sf)
    \/ \E via \in {"rest"} : Return(via)
    \/ RedisEvents
    \/ TimePasses

SpecRepeat == Init /\ [][RepeatNext]_vars

\* the CacheManager used directly
CacheNext ==
    \/ \E ok \in BOOLEAN : Startup(ok)
    \/ \E k \in CacheKeys, gf \in Faults, df \in Faults : OpGet(k, gf, df)
    \/ \E k \in CacheKeys, v \in CacheValues, t \in CacheTtls, sf \in Faults :
            OpSet(k, v, t, sf)
    \/ \E k \in CacheKeys, df \in Faults : OpDel(k, df)
    \/ \E ff \in Faults : OpFlush(ff)
    \/ RedisEvents
    \/ TimePasses

SpecCache == Init /\ [][CacheNext]_vars

\* getMultiplePrices used directly
PriceNext ==
    \/ \E ok \in BOOLEAN : Startup(ok)
    \/ \E cs \in PriceLists, in \in PriceInputs(Faults, BOOLEAN, SUBSET {SymB, SymE}, MidDraws) :
            PriceCall(cs, in)
    \/ RedisEvents
    \/ TimePasses

SpecPrice == Init /\ [][PriceNext]_vars

\* One tools/call on a WebSocket connection, with and without stream_updates,
\* with news sources that answer and stages that settle in every order
WsIds  == { NumId(0), NumId(7) }
WsArgs ==
    { [NoArgs EXCEPT !.query = Some(<<98>>), !.stream_updates = Some(TRUE)],
      [NoArgs EXCEPT !.query = Some(<<98>>), !.stream_updates = Some(TRUE),
                     !.include_prices = Some(FALSE)],
      [NoArgs EXCEPT !.query = Some(<<98>>)],
      [NoArgs EXCEPT !.stream_updates = Some(TRUE)] }
WsSettlements ==
    { f \in Settlements :
        /\ f["sentiment"].status = "fulfilled" => f["sentiment"].high = 0
        /\ \A st \in Stages \ {"sentiment", "correlation"} : f[st] = Plain }

WsNext ==
    \/ \E ok \in BOOLEAN : Startup(ok)
    \/ \E id \in WsIds, a \in WsArgs : Len(calls) < MaxWsCalls /\ WsCall(id, a)
    \/ Validate
    \/ \E gf \in Faults, df \in Faults : ReadAnalysisCache(gf, df)
    \/ \E in \in NewsInputs({FALSE}, BOOLEAN, {Some(1)}) : FetchNews(in)
    \/ \E in \in PriceInputs({FALSE}, {FALSE}, {{SymB}}, MidDraws) : FetchPrices(in)
    \/ \E f \in WsSettlements, o \in StageOrders : FanOut(f, o)
    \/ Aggregate
    \/ \E sf \in Faults : WriteAnalysisCache(sf)
    \/ Catch
    \/ Return("ws")
    \/ RedisEvents

SpecWs == Init /\ [][WsNext]_vars

\* fetchNews used directly, twice
NewsNext ==
    \/ \E ok \in BOOLEAN : Startup(ok)
    \/ \E a \in NewsArgs, in \in NewsInputs(Faults, BOOLEAN, SrcOutcomes) :
            Len(nCalls) < MaxNCalls /\ NewsCall(a, in)
    \/ RedisEvents
    \/ TimePasses

SpecNews == Init /\ [][NewsNext]_vars

\* fetchNews and getMultiplePrices racing their timers, and the fetches the
\* timers have beaten
RaceNext ==
    \/ \E ok \in BOOLEAN : Startup(ok)
    \/ \E a \in NewsArgs, in \in NewsInputs(Faults, BOOLEAN, {Some(1)}) :
            Len(nCalls) + Len(pCalls) < MaxRace /\ NewsCall(a, in)
    \/ \E cs \in {<<SymB>>}, in \in PriceInputs(Faults, BOOLEAN, {{SymB}}, MidDraws) :
            Len(nCalls) + Len(pCalls) < MaxRace /\ PriceCall(cs, in)
    \/ \E i \in 1..MaxRace, late \in LateSteps, sf \in Faults :
            AbandonedSettles(i, late, sf)
    \/ RedisEvents
    \/ TimePasses

SpecRace == Init /\ [][RaceNext]_vars

\* getMultiplePrices on symbols generateMockPrices knows and does not know,
\* with the draws of Math.random at both ends and in the middle
MockLists == { <<BTC>>, <<Btc, BTC>>, <<ADA, XYZ>>, <<XYZ>> }
MockDraws == { 0, Half, RandomUnits - 1 }

MockNext ==
    \/ \E ok \in BOOLEAN : Startup(ok)
    \/ \E cs \in MockLists,
          in \in PriceInputs(Faults, BOOLEAN, {{}, {BTC}}, Draws(MockDraws)) :
            Len(pCalls) < MaxMock /\ PriceCall(cs, in)
    \/ RedisEvents
    \/ TimePasses

SpecMock == Init /\ [][MockNext]_vars

\* generateCacheKey applied to every pair of argument records
KeyInit ==
    /\ CacheInit /\ ExecInit
    /\ kA \in KeyArgs
    /\ kB \in KeyArgs
    /\ kOut = <<>>
    /\ pCalls = <<>>
    /\ cOps = <<>>
    /\ nCalls = <<>>
    /\ abandoned = <<>>
    /\ fIn = NoSignals
    /\ fOut = <<>>
    /\ FrontIdle

KeyNext == KeyCompute

SpecKey == KeyInit /\ [][KeyNext]_vars

\* fuseSentiments applied to every list of signals
FusionInit ==
    /\ CacheInit /\ ExecInit
    /\ kA = NoValid
    /\ kB = NoValid
    /\ kOut = <<>>
    /\ pCalls = <<>>
    /\ cOps = <<>>
    /\ nCalls = <<>>
    /\ abandoned = <<>>
    /\ fIn \in FusionInputs
    /\ fOut = <<>>
    /\ FrontIdle

FusionNext == FuseCompute

SpecFusion == FusionInit /\ [][FusionNext]_vars


\* analyze of each stage applied to every input
StageInit ==
    /\ CacheInit /\ ExecInit
    /\ kA = NoValid
    /\ kB = NoValid
    /\ kOut = <<>>
    /\ pCalls = <<>>
    /\ cOps = <<>>
    /\ nCalls = <<>>
    /\ abandoned = <<>>
    /\ fIn = NoSignals
    /\ fOut = <<>>
    /\ sIn \in StageInputs
    /\ sOut = <<>>
    /\ routed = <<>>
    /\ connections = NoConnections
    /\ sockets = [c \in ConnIds |-> NoSocket]
    /\ delivered = [c \in ConnIds |-> <<>>]
    /\ inflight = [c \in ConnIds |-> None]
    /\ nextBeat = HeartbeatEvery
    /\ BackIdle

StageNext == StageAnalyze

SpecStage == StageInit /\ [][StageNext]_vars

\* The same request twice, each time computed: news and prices that are
\* fetched or replaced by mock data, stages that return their results or
\* their defaults.  Between the calls the cached analysis grows old.
DegradeArgs == { [NoArgs EXCEPT !.query = Some(<<98>>)] }
CleanSettlements ==
    { f \in Settlements :
        /\ \A st \in Stages : f[st].status = "fulfilled"
        /\ f["sentiment"].high = 0 }
DegradeSettlements ==
    { [st \in Stages |-> IF st \in D THEN StageDefault(st) ELSE f[st]] :
        f \in CleanSettlements, D \in {{}, {"sentiment"}, {"behavioral"}} }

DegradeNext ==
    \/ \E ok \in BOOLEAN : Startup(ok)
    \/ \E a \in DegradeArgs : Len(calls) < MaxDegrade /\ Call(a)
    \/ Validate
    \/ ReadAnalysisCache(FALSE, FALSE)
    \/ \E in \in NewsInputs({FALSE}, BOOLEAN, {Some(1)}) : FetchNews(in)
    \/ \E in \in PriceInputs({FALSE}, BOOLEAN, {{SymB}}, MidDraws) : FetchPrices(in)
    \/ \E f \in DegradeSettlements : FanOut(f, StageOrder)
    \/ Aggregate
    \/ WriteAnalysisCache(FALSE)
    \/ Return("rest")
    \/ TimePasses

SpecDegrade == Init /\ [][DegradeNext]_vars

\* The heartbeat: clients connect, answer pings or do not, and go away, while
\* the timer fires every HeartbeatEvery ticks.
BeatNext ==
    \/ \E c \in ConnIds, answers \in BOOLEAN : Connect(c, answers)
    \/ \E c \in ConnIds : Pong(c)
    \/ \E c \in ConnIds : SocketCloses(c)
    \/ \E c \in ConnIds : HandleClose(c)
    \/ Heartbeat
    \/ ConnTick

\* Time passes, and the interval timer fires when it is due.
SpecBeat == Init /\ [][BeatNext]_vars /\ WF_vars(Heartbeat) /\ WF_vars(ConnTick)

\* the topics of a subscribe or unsubscribe request
TopicLists == { <<>>, <<"prices">>, <<"news">>, <<"prices", "news">>,
                <<"news", "news">> }

\* subscribe and unsubscribe requests, with and without a list of topics
SubsMessages ==
    { Request(Some(NumId(7)), "2.0", m, NoParams) : m \in {"subscribe", "unsubscribe"} }
    \cup { Request(Some(NumId(7)), "2.0", m, Params(Undefined, None, Some(ts))) :
             m \in {"subscribe", "unsubscribe"}, ts \in TopicLists }

\* Clients that connect, subscribe, unsubscribe and go away.
SubsNext ==
    \/ \E c \in ConnIds : Connect(c, TRUE)
    \/ \E c \in ConnIds : SocketCloses(c)
    \/ \E c \in ConnIds : HandleClose(c)
    \/ \E c \in ConnIds, msg \in SubsMessages :
          Room(c, MaxRequests + 1) /\ HandleMessage(c, msg)

SpecSubs == Init /\ [][SubsNext]_vars

\* the messages a client sends while it is served
ConnMessages ==
    { Json("invalid"),
      Request(Some(NumId(7)), "2.0", "ping", NoParams),
      Request(Some(NumId(7)), "2.0", "subscribe",
              Params(Undefined, None, Some(<<"prices">>))) }
    \cup { Request(Some(NumId(7)), "2.0", "tools/call",
                   Params(ToolName, Some([NoArgs EXCEPT !.stream_updates = Some(su)]),
                          None)) : su \in BOOLEAN }

\* Connections with their traffic: requests, calls of the tool with their
\* progress events, broadcasts, and the heartbeat.  The clients connect
\* when the server starts and never answer a ping.
ConnNext ==
    \/ \E c \in ConnIds : now = 0 /\ Connect(c, FALSE)
    \/ \E c \in ConnIds : SocketCloses(c)
    \/ \E c \in ConnIds : HandleClose(c)
    \/ Heartbeat
    \/ ConnTick
    \/ \E c \in ConnIds, msg \in ConnMessages :
          Room(c, MaxDelivered) /\ HandleMessage(c, msg)
    \/ \E c \in ConnIds : ExecuteProgress(c)
    \/ \E c \in ConnIds : ExecuteSettles(c)
    \/ \E topic \in {None, Some("prices")} :
          (\A c \in DOMAIN connections : Room(c, MaxDelivered)) /\ Broadcast(topic)

SpecConn == Init /\ [][ConnNext]_vars

\* the arguments of a call: the query "b", or none
RouteArgs == { [NoArgs EXCEPT !.query = Some(<<98>>)], NoArgs }

\* message.params: missing; arguments without the name of a tool; the tool
\* with and without arguments; a tool that does not exist
RouteParams ==
    { NoParams, Params("bogus_tool", None, None), Params(ToolName, None, None) }
    \cup { Params(n, Some(a), None) : n \in {Undefined, ToolName}, a \in RouteArgs }

\* JSON objects with and without an id, a version and a method
RouteRequests ==
    { Request(id, v, m, p) :
        id \in {None, Some(NumId(7))}, v \in {"2.0", "1.0", Undefined},
        m \in {Undefined, "tools/list", "tools/call", "bogus"},
        p \in RouteParams }

\* the entries the longer batches are made of: a call of the tool, the value
\* null, an unknown method, and a call of the tool with version 1.0
BatchEntries ==
    { Request(Some(NumId(7)), "2.0", "tools/call",
              Params(ToolName, Some([NoArgs EXCEPT !.query = Some(<<98>>)]), None)),
      Json("null"),
      Request(Some(NumId(7)), "2.0", "bogus", NoParams),
      Request(Some(NumId(7)), "1.0", "tools/call",
              Params(ToolName, Some([NoArgs EXCEPT !.query = Some(<<98>>)]), None)) }

\* batches: of the entries above, and of any one message
Batches ==
    SeqsUpTo(BatchEntries, MaxBatch)
    \cup { <<m>> : m \in RouteRequests \cup {Json("other"), Json("null")} }

\* bodies of the REST request: the tool arguments themselves (as in the
\* README), or an object with the property "arguments"
RestBodies ==
    { Body(a, None) : a \in RouteArgs } \cup { Body(NoArgs, Some(a)) : a \in RouteArgs }

\* Requests to the four adapters, each answered before the next arrives.
RouteNext ==
    \/ \E m \in RouteRequests \cup {Json("other")} :
          Len(routed) < MaxRouted /\ Single("mcp", m)
    \/ \E m \in RouteRequests \cup {Json("other"), Json("null"), Json("invalid")} :
          Len(routed) < MaxRouted /\ Single("ws", m)
    \/ \E via \in {"mcp", "batch"}, m \in {Json("null"), Json("invalid")} :
          Len(routed) < MaxRouted /\ BodyRejected(via, m)
    \/ \E b \in Batches : Len(routed) < MaxRouted /\ PostBatch(b)
    \/ \E body \in RestBodies : Len(routed) < MaxRouted /\ PostTool(body)

SpecRoute == Init /\ [][RouteNext]_vars

\* fetchCoinGeckoPrices used directly
GeckoNext ==
    \E c \in GeckoCoinIds, a1 \in GeckoAnswers, a2 \in GeckoAnswers :
        GeckoCall(c, <<a1, a2>>)

SpecGecko == Init /\ [][GeckoNext]_vars

\* the STDIO server from its start
StdioNext ==
    \/ \E env \in {None} \cup {Some(l) : l \in LogLevels},
          valid \in BOOLEAN, redisOk \in BOOLEAN : StdioStart(env, valid, redisOk)
    \/ \E req \in StdioRequests : StdioRequest(req)

SpecStdio == Init /\ [][StdioNext]_vars

\* the HTTP server from its start
ServerNext ==
    \/ \E env \in ServerEnvs : Listen(env)
    \/ \E req \in HttpRequests : HttpRequest(req)
    \/ \E key \in ClientKeys : WsUpgrade(key)
    \/ WsToolCall

SpecServer == Init /\ [][ServerNext]_vars

\* two execute() calls of the same request, in every interleaving with each
\* other and with the events of the Redis client
OverlapNext ==
    \/ \E ok \in BOOLEAN : Startup(ok)
    \/ \E r \in RunIds, a \in RepeatArgs : RunCall(r, a)
    \/ \E r \in RunIds, gf \in Faults, df \in Faults : RunRead(r, gf, df)
    \/ \E r \in RunIds, f \in RepeatSettlements : RunPipeline(r, f)
    \/ \E r \in RunIds, sf \in Faults : RunWrite(r, sf)
    \/ RedisEvents

SpecOverlap == Init /\ [][OverlapNext]_vars
---------------------------------------------------------------------------
(* Properties *)

\* the completed calls
Done == {calls[i] : i \in 1..Len(calls)}

\* a malformed argument object, as the schema's documentation describes it:
\* no query or an empty one, a depth or a time range outside its enum, an
\* item count outside 5..50
Malformed(a) ==
    \/ ~IsSome(a.query)
    \/ Get(a.query) = <<>>
    \/ IsSome(a.analysis_depth) /\ Get(a.analysis_depth) \notin {"quick", "standard", "deep"}
    \/ IsSome(a.time_range) /\ Get(a.time_range) \notin {"1h", "6h", "12h", "24h"}
    \/ IsSome(a.max_news_items) /\ Get(a.max_news_items) \notin 5..50

\* the degraded Verdict: NEUTRAL, confidence 0, risk HIGH because of an
\* analysis error, no market signals, and a suggestion to retry
Degraded(v) ==
    /\ v.overall_sentiment = "NEUTRAL"
    /\ v.confidence_score = 0
    /\ v.risk_assessment.level = "HIGH"
    /\ "analysis_error" \in v.risk_assessment.factors
    /\ v.market_signals = 0
    /\ \E i \in 1..Len(v.actionable_recommendations) :
          v.actionable_recommendations[i] = "Please try again with different parameters"

\* a Verdict computed by the stages from news items
Normal(v) ==
    /\ "analysis_error" \notin v.risk_assessment.factors
    /\ v.ai_model_used # "error"
    /\ v.market_signals > 0
    /\ v.data_sources_count > 0

\* C1: for every well-formed argument object and every outcome of the cache,
\* the fetchers and the stages, execute resolves, and the Verdict it returns
\* has overall_sentiment BULLISH, BEARISH or NEUTRAL and a confidence_score
\* between 0 and 1 (0..100 hundredths).
C1_ExecuteResolves ==
    \A c \in Done :
        ~Malformed(c.args) =>
            /\ c.info.outcome = "resolved"
            /\ c.info.verdict.overall_sentiment \in {"BULLISH", "BEARISH", "NEUTRAL"}
            /\ c.info.verdict.confidence_score >= 0
            /\ c.info.verdict.confidence_score <= 100

\* C1, witness: a well-formed call that got no news from any source and whose
\* five stages all rejected has resolved
C1_Witness ==
    /\ pc = "idle"
    /\ \E c \in Done :
          /\ ~Malformed(c.args)
          /\ c.info.newsPath = "mock_unreachable"
          /\ c.info.rejected = Stages
          /\ c.info.outcome = "resolved"

\* equal in every field other than the processing time
SameVerdict(v, w) ==
    [v EXCEPT !.processing_time_ms = 0] = [w EXCEPT !.processing_time_ms = 0]

\* calls i and i+1 carry identical arguments and the second one starts within
\* the analysis TTL of the first
RepeatedWithinTtl(i) ==
    /\ i + 1 <= Len(calls)
    /\ calls[i].args = calls[i + 1].args
    /\ calls[i + 1].startedAt - calls[i].startedAt < AnalysisTtl

C3_OneStageRejected ==
    \A c \in Done :
        (~c.info.hit /\ Cardinality(c.info.rejected) = 1) =>
            /\ c.info.outcome = "resolved"
            /\ Normal(c.info.verdict)
            /\ ~Degraded(c.info.verdict)
            /\ c.info.successful = 4
            /\ c.info.verdict.confidence_score =
                  IF "sentiment" \in c.info.rejected THEN 0 ELSE 80

\* C3, witness: a call whose behavioral stage alone rejected, with confidence 0.80
C3_Witness ==
    \E c \in Done :
        /\ c.info.rejected = {"behavioral"}
        /\ c.info.successful = 4
        /\ c.info.verdict.confidence_score = 80
        /\ c.info.verdict.behavioral_insights = "defaults"

\* C4 as stated: a well-formed call whose news sources were all unreachable,
\* or whose news fetch timed out, returns the degraded Verdict.
C4_Original ==
    \A c \in Done :
        (~Malformed(c.args) /\ c.info.newsPath \in {"mock_unreachable", "mock_timeout"})
            => Degraded(c.info.verdict)

\* C4, amended: a well-formed call whose news sources were all unreachable, or
\* whose news fetch timed out, is served the mock articles: it returns a
\* normal Verdict over 5 items, with 5 market signals.
C4_MockFallback ==
    \A c \in Done :
        (~Malformed(c.args) /\ c.info.newsPath \in {"mock_unreachable", "mock_timeout"})
            => /\ Normal(c.info.verdict)
               /\ ~Degraded(c.info.verdict)
               /\ c.info.verdict.data_sources_count = 5
               /\ c.info.verdict.market_signals = 5
               /\ c.info.ranStages

\* C4, witness: a call whose two news sources were both unreachable
C4_Witness ==
    \E c \in Done :
        /\ c.info.newsPath = "mock_unreachable"
        /\ c.info.verdict.data_sources_count = 5

Ops == {cOps[i] : i \in 1..Len(cOps)}

\* C7 as stated: an operation on the durable tier that threw leaves the
\* durable tier marked unhealthy, so that the next operation skips it.
C7_Original ==
    \A o \in Ops : o.fault => ~o.tryAfter

\* C7, amended: an operation on the durable tier that threw falls through to
\* the memory tier for that call only; the health flags are as they were, so
\* the next operation tries the durable tier again.
C7_ErrorsOnlyLogged ==
    \A o \in Ops :
        o.fault =>
            /\ o.tryBefore
            /\ o.tryAfter
            /\ o.op = "get" => o.tier \in {"memory", "none"}
            /\ o.op = "set" => o.tier = "memory" /\ o.inMemAfter
            /\ o.op \in {"del", "flush"} => ~o.inMemAfter

\* C7, witness: a set whose durable write threw, followed by a get of the
\* same key that went to the durable tier and was answered by the memory tier
C7_Witness ==
    /\ Len(cOps) >= 2
    /\ cOps[1].op = "set" /\ cOps[1].fault
    /\ cOps[2].op = "get" /\ cOps[2].key = cOps[1].key
    /\ cOps[2].tryBefore /\ ~cOps[2].fault
    /\ cOps[2].tier = "memory"

\* C8 as stated: get never returns an entry older than its TTL, and an
\* expired entry that get finds is gone from its tier afterwards.
C8_Original ==
    \A o \in Ops :
        o.op = "get" =>
            /\ o.tier # "none" => o.age <= o.ttl
            /\ o.redisOld => ~o.inRedisAfter
            /\ o.memOld => ~o.inMemAfter

\* C8, amended: get never returns an entry older than its TTL; an expired
\* entry found in the memory tier is deleted, and one found in the durable
\* tier is deleted unless the delete itself throws.
C8_ExpiryOnRead ==
    \A o \in Ops :
        o.op = "get" =>
            /\ o.tier # "none" => o.age <= o.ttl
            /\ (o.redisOld /\ ~o.fault) => ~o.inRedisAfter
            /\ o.memOld => ~o.inMemAfter

\* C8, witness: a get that found an expired entry in the durable tier and
\* deleted it, returning nothing
C8_Witness ==
    \E o \in Ops :
        /\ o.op = "get"
        /\ o.redisOld
        /\ ~o.inRedisAfter
        /\ o.tier = "none"

\* how often x occurs in the list s
Occurrences(s, x) == Cardinality({i \in 1..Len(s) : s[i] = x})

\* the same coins, in any order
SameCoins(s, t) ==
    /\ Len(s) = Len(t)
    /\ \A x \in Range(s) \cup Range(t) : Occurrences(s, x) = Occurrences(t, x)

\* two validated argument records that differ at most in the case of the
\* query, the order of focus_coins, and stream_updates
SameNormalized(a, b) ==
    /\ a.analysis_depth = b.analysis_depth
    /\ a.time_range = b.time_range
    /\ a.max_news_items = b.max_news_items
    /\ a.include_prices = b.include_prices
    /\ toLowerCase(a.query) = toLowerCase(b.query)
    /\ IsSome(a.focus_coins) = IsSome(b.focus_coins)
    /\ IsSome(a.focus_coins) => SameCoins(Get(a.focus_coins), Get(b.focus_coins))

\* C9: two argument records that agree on depth, time range, item count and
\* include_prices, whose queries are equal after lower-casing and whose
\* focus_coins hold the same coins in any order, get the same cache key;
\* stream_updates plays no part.
C9_KeyNormalized ==
    (kOut # <<>> /\ SameNormalized(kA, kB)) => kOut[1] = kOut[2]

\* C9, witness: two records that differ in the case of the query, the order
\* of the coins and stream_updates, with one key
C9_Witness ==
    /\ kOut # <<>>
    /\ kA.query # kB.query
    /\ IsSome(kA.focus_coins)
    /\ kA.focus_coins # kB.focus_coins
    /\ kA.stream_updates # kB.stream_updates
    /\ SameNormalized(kA, kB)
    /\ kOut[1] = kOut[2]

\* coin lists that name the same symbols once normalized
SameSymbols(s, t) ==
    {normalizeSymbol(s[i]) : i \in 1..Len(s)} = {normalizeSymbol(t[i]) : i \in 1..Len(t)}

\* C10: once a getMultiplePrices call has fetched prices and cached them, a
\* later call within the price TTL for a list naming the same symbols (in any
\* order, with or without duplicates) is served from the cache, as long as
\* the later call reads the tier the earlier one wrote.
C10_PriceKeyShared ==
    \A i \in 1..Len(pCalls) : \A j \in 1..Len(pCalls) :
        ( /\ i < j
          /\ ~pCalls[i].hit
          /\ SameSymbols(pCalls[i].coins, pCalls[j].coins)
          /\ pCalls[j].at - pCalls[i].at < PriceTtl
          /\ pCalls[i].wrote = "redis" <=> pCalls[j].redisRead )
        => pCalls[j].hit
---------------------------------------------------------------------------
(* fetchNews: caching, and the race against the timer *)

\* direct fetchNews calls i and i+1 carry the same three arguments and the
\* second one starts within the news TTL of the first
NewsRepeatedWithinTtl(i) ==
    /\ i + 1 <= Len(nCalls)
    /\ nCalls[i].args = nCalls[i + 1].args
    /\ nCalls[i + 1].at - nCalls[i].at < NewsTtl

Slot(store, key) ==
    IF getKey(key) \in DOMAIN store THEN Some(store[getKey(key)]) ELSE None

\* the value a call whose fetch was abandoned returned
ReturnedIn(nc, pcs, op) ==
    IF op.kind = "news" THEN nc[op.call].items ELSE pcs[op.call].prices

Returned(op) == ReturnedIn(nCalls, pCalls, op)

\* the tier a call whose fetch was abandoned wrote
WroteIn(nc, pcs, op) ==
    IF op.kind = "news" THEN nc[op.call].wrote ELSE pcs[op.call].wrote

\* C12: when the timer of fetchWithTimeout has won the race, the call returns
\* synthetic data and writes that data to the cache; the abandoned fetch goes
\* on, and when it settles, fulfilled or rejected, the values the calls
\* returned and the entries under the key of its call stay as they were.
C12_TimerWins ==
    /\ [](\A i \in 1..Len(abandoned) : Returned(abandoned[i]).synthetic)
    /\ [][Len(abandoned') = Len(abandoned) + 1 =>
            LET op == abandoned'[Len(abandoned')]
                st == IF WroteIn(nCalls', pCalls', op) = "redis"
                      THEN redisStore' ELSE memoryCache'
            IN  /\ IsSome(Slot(st, op.key))
                /\ Get(Slot(st, op.key)).data = ReturnedIn(nCalls', pCalls', op)]_vars
    /\ [][\A i \in 1..Len(abandoned) :
            (abandoned[i].state = "running" /\ abandoned'[i].state # "running") =>
                /\ nCalls' = nCalls
                /\ pCalls' = pCalls
                /\ Slot(memoryCache', abandoned[i].key)
                      = Slot(memoryCache, abandoned[i].key)
                /\ Slot(redisStore', abandoned[i].key)
                      = Slot(redisStore, abandoned[i].key)]_vars

\* C12, witness: a price fetch and a news fetch that their timers had beaten
\* have settled, one rejected and one fulfilled, after their calls returned
\* synthetic data
C12_Witness ==
    /\ Len(abandoned) = 2
    /\ abandoned[1].kind = "prices" /\ abandoned[1].state = "fulfilled"
    /\ abandoned[2].kind = "news" /\ abandoned[2].state = "rejected"
    /\ \A i \in 1..2 : Returned(abandoned[i]).synthetic
    /\ getKey(MappingKey) \in (DOMAIN memoryCache) \cup (DOMAIN redisStore)

\* the direct getMultiplePrices calls whose timer fired
TimedOutPriceCalls ==
    { pCalls[abandoned[i].call] :
        i \in {j \in 1..Len(abandoned) : abandoned[j].kind = "prices"} }

\* |a - b|
Dist(a, b) == IF a >= b THEN a - b ELSE b - a

\* C13: when the price fetch times out, getMultiplePrices returns a map of
\* mock quotes with one quote for every requested symbol, under the symbol in
\* upper case and nothing else, and the current price of each quote is within
\* 5% of the symbol's reference base price (10.00 for a symbol without one).
C13_MockQuotes ==
    \A c \in TimedOutPriceCalls :
        /\ c.prices.synthetic
        /\ DOMAIN c.prices.quotes = {toUpperCase(c.coins[i]) : i \in 1..Len(c.coins)}
        /\ \A i \in 1..Len(c.coins) :
              LET k    == toUpperCase(c.coins[i])
                  base == mockBasePrice(k)
              IN  /\ c.prices.quotes[k].symbol = k
                  /\ 20 * Dist(c.prices.quotes[k].current, base) <= base

\* C13, witness: a timed-out call for ADA and XYZ that returned ADA at 0.47,
\* the top of its band around 0.45, and XYZ at 9.50, the bottom of its band
\* around 10.00
C13_Witness ==
    \E c \in TimedOutPriceCalls :
        /\ c.coins = <<ADA, XYZ>>
        /\ c.prices.quotes[ADA].current = 47
        /\ c.prices.quotes[XYZ].current = 950

---------------------------------------------------------------------------
(* execute: phases, progress events and the analysis cache write *)

\* the place of a phase in INIT, FETCH_NEWS, FETCH_PRICES, FAN_OUT_STAGES,
\* AGGREGATE, CACHE_WRITE, DONE
PhaseRank(ph) ==
    CASE ph = "INIT"           -> 1
      [] ph = "FETCH_NEWS"     -> 2
      [] ph = "FETCH_PRICES"   -> 3
      [] ph = "FAN_OUT_STAGES" -> 4
      [] ph = "AGGREGATE"      -> 5
      [] ph = "CACHE_WRITE"    -> 6
      [] ph = "FAILED"         -> 7
      [] OTHER                 -> 8

\* the calls that ran to the end without a cache hit and without a failure
Computed == {c \in Done : ~c.info.hit /\ c.info.cause = "none"}

\* C14: at every moment of a call the phases entered so far follow the order
\* INIT, FETCH_NEWS, FETCH_PRICES, FAN_OUT_STAGES, AGGREGATE, CACHE_WRITE,
\* DONE, each entered once and after the one before it was left; a call that
\* computes its Verdict goes through all of them, and through FETCH_PRICES
\* exactly when include_prices is true and at least one coin is selected.
C14_PhasesInOrder ==
    /\ \A i \in 1..(Len(cur.phases) - 1) :
          PhaseRank(cur.phases[i]) < PhaseRank(cur.phases[i + 1])
    /\ \A c \in Computed :
          c.info.phases =
             <<"INIT", "FETCH_NEWS">>
             \o (IF AnalysisRequestSchema(c.args).include_prices /\ c.info.coins > 0
                 THEN <<"FETCH_PRICES">> ELSE <<>>)
             \o <<"FAN_OUT_STAGES", "AGGREGATE", "CACHE_WRITE", "DONE">>

\* C14, witness: a call with include_prices true and an empty list of focus
\* coins has gone from FETCH_NEWS to FAN_OUT_STAGES, and on to DONE
C14_Witness ==
    \E c \in Computed :
        /\ AnalysisRequestSchema(c.args).include_prices
        /\ c.args.focus_coins = Some(<<>>)
        /\ c.info.coins = 0
        /\ c.info.phases = <<"INIT", "FETCH_NEWS", "FAN_OUT_STAGES", "AGGREGATE",
                             "CACHE_WRITE", "DONE">>

\* the percentages of the progress events sent so far, oldest first
RECURSIVE Percentages(_)
Percentages(out) ==
    IF Len(out) = 0 THEN <<>>
    ELSE (IF Head(out).type = "progress_update" THEN <<Head(out).progress>>
          ELSE <<>>) \o Percentages(Tail(out))

\* C15: the percentages of the progress events of a call with a progress
\* callback never go down, whatever the order in which the five stages settle.
C15_ProgressMonotonic ==
    LET ps == Percentages(wsOut)
    IN  \A i \in 1..(Len(ps) - 1) : ps[i] <= ps[i + 1]

\* the progress events and the responses sent so far
IsProgress(m) == m.type = "progress_update"

\* C16: every progress event of a streamed tools/call carries the id of the
\* request it belongs to, and the progress events are all sent before the
\* response: none follows it.
C16_ProgressTagged ==
    /\ IsSome(wsIn) =>
          \A i \in 1..Len(wsOut) :
              IsProgress(wsOut[i]) => wsOut[i].request_id = Get(wsIn).id
    /\ \A i \in 1..Len(wsOut), j \in 1..Len(wsOut) :
          (IsProgress(wsOut[i]) /\ ~IsProgress(wsOut[j])) => i < j

\* the second half of C16 alone: no progress event follows a response
C16_ProgressBeforeResult ==
    \A i \in 1..Len(wsOut), j \in 1..Len(wsOut) :
        (IsProgress(wsOut[i]) /\ ~IsProgress(wsOut[j])) => i < j

\* the entries of the two tiers under analysis keys
AnalysisEntries(store) ==
    { <<ck, store[ck]>> : ck \in {x \in DOMAIN store : x[2][1] = "analysis"} }

---------------------------------------------------------------------------
(* Fusion: the overall sentiment and its confidence *)

\* the number of stage results that carry the overall sentiment o
Bucket(f, o) ==
    Cardinality({st \in Stages : f[st].status = "fulfilled"
                                 /\ f[st].overallSentiment = o})

AllBuckets(f) == Bucket(f, "BULLISH") + Bucket(f, "BEARISH") + Bucket(f, "NEUTRAL")

\* C18: the confidence of a computed Verdict (in hundredths) is the share of
\* the bucket of its overall_sentiment among all three buckets, times the
\* number of fulfilled stages over 5; it is 0 when all three buckets are empty.
C18_Confidence ==
    \A c \in Computed :
        LET f   == c.info.stages
            v   == c.info.verdict
            win == Bucket(f, v.overall_sentiment)
            ok  == Cardinality({st \in Stages : f[st].status = "fulfilled"})
        IN  IF AllBuckets(f) = 0
            THEN v.confidence_score = 0
            ELSE v.confidence_score * AllBuckets(f) * 5 = 100 * win * ok

\* C18, witness: a BEARISH Verdict computed from three fulfilled stages, the
\* sentiment stage among them, has confidence 0.60
C18_Witness ==
    \E c \in Computed :
        /\ c.info.verdict.overall_sentiment = "BEARISH"
        /\ Cardinality(c.info.rejected) = 2
        /\ Bucket(c.info.stages, "BEARISH") = 1
        /\ AllBuckets(c.info.stages) = 1
        /\ c.info.verdict.confidence_score = 60

\* the weight the signals of a category add up to, each signal counted with
\* confidence * importance
CategoryWeight(signals, S) ==
    LET idx == {i \in 1..Len(signals) : signals[i].sentiment \in S}
        w[I \in SUBSET idx] ==
            IF I = {} THEN 0
            ELSE LET i == CHOOSE x \in I : TRUE
                 IN  signals[i].confidence * signals[i].importance + w[I \ {i}]
    IN  w[idx]

BullishSignals == {"STRONGLY_POSITIVE", "POSITIVE"}
BearishSignals == {"STRONGLY_NEGATIVE", "NEGATIVE"}

\* the category whose weight is strictly the highest, NEUTRAL if there is none
Heaviest(b, r, n) ==
    IF b > r /\ b > n THEN "BULLISH"
    ELSE IF r > b /\ r > n THEN "BEARISH"
    ELSE "NEUTRAL"

ScaledBuckets(in) ==
    LET sig == in.signals
        m   == calculatePriceInfluence(in.changes)
    IN  [ bullish |-> (CategoryWeight(sig, BullishSignals)
                         + CategoryWeight(sig, {"STRONGLY_POSITIVE"}))
                      * m.bullishMultiplier,
          bearish |-> (CategoryWeight(sig, BearishSignals)
                         + CategoryWeight(sig, {"STRONGLY_NEGATIVE"}))
                      * m.bearishMultiplier,
          neutral |-> CategoryWeight(sig, {"NEUTRAL"}) * m.one ]

\* bucket x is strictly greater than the buckets y and z
Exceeds(x, y, z) == x > y /\ x > z

\* C20: the sentiment stage returns BULLISH (BEARISH) only when the bullish
\* (bearish) bucket it compares strictly exceeds each of the other two, and
\* NEUTRAL whenever neither does; so does calculateOverallSentiment with the
\* buckets of votes it counts.
C20_TiesNeutral ==
    \A i \in 1..Len(fOut) :
        LET s == ScaledBuckets(fIn)
            f == FusedSettlement(fOut[i].stage)
            o == fOut[i].stage.overallSentiment
            v == fOut[i].verdict.overallSentiment
        IN  /\ o = "BULLISH" => Exceeds(s.bullish, s.bearish, s.neutral)
            /\ o = "BEARISH" => Exceeds(s.bearish, s.bullish, s.neutral)
            /\ (~Exceeds(s.bullish, s.bearish, s.neutral)
                /\ ~Exceeds(s.bearish, s.bullish, s.neutral)) => o = "NEUTRAL"
            /\ v = "BULLISH" => Exceeds(Bucket(f, "BULLISH"), Bucket(f, "BEARISH"),
                                        Bucket(f, "NEUTRAL"))
            /\ v = "BEARISH" => Exceeds(Bucket(f, "BEARISH"), Bucket(f, "BULLISH"),
                                        Bucket(f, "NEUTRAL"))
            /\ (~Exceeds(Bucket(f, "BULLISH"), Bucket(f, "BEARISH"), Bucket(f, "NEUTRAL"))
                /\ ~Exceeds(Bucket(f, "BEARISH"), Bucket(f, "BULLISH"), Bucket(f, "NEUTRAL")))
                  => v = "NEUTRAL"

\* C20, witness: a positive and a negative signal of the same weight, and no
\* neutral one, are fused to NEUTRAL
C20_Witness ==
    /\ Len(fOut) = 1
    /\ fIn.signals = <<Signal("POSITIVE", 5, 5), Signal("NEGATIVE", 5, 5)>>
    /\ fIn.changes = <<>>
    /\ ScaledBuckets(fIn).bullish = ScaledBuckets(fIn).bearish
    /\ ScaledBuckets(fIn).bullish > ScaledBuckets(fIn).neutral
    /\ fOut[1].stage.overallSentiment = "NEUTRAL"
    /\ fOut[1].verdict.overallSentiment = "NEUTRAL"

---------------------------------------------------------------------------
(* Stages: analyze never rejects; what a failure is turned into *)

\* every sub-step of the stage failed: an error reached the catch block of
\* analyze, or (sentiment stage) no item got an answer from the AI provider
AllFailed(in) ==
    \/ in.throws
    \/ /\ in.stage = "sentiment"
       /\ \A i \in 1..Len(in.items) :
              in.items[i].ai = "down" \/ in.items[i].broken

\* the promise of analyze is fulfilled on every input, whatever failed
C22_NeverRejects ==
    \A i \in 1..Len(sOut) : sOut[i].settles = "fulfilled"

\* C22: analyze of each of the five stages never rejects, and when its
\* sub-steps failed (the AI provider included) the result it resolves with is
\* the stage's neutral low-confidence default: the catch block's default, or,
\* for the sentiment stage, at least NEUTRAL with less than full confidence.
C22_FailureGivesNeutralDefault ==
    \A i \in 1..Len(sOut) :
        /\ sOut[i].settles = "fulfilled"
        /\ AllFailed(sIn) =>
              /\ sIn.throws => sOut[i].defaulted
              /\ sIn.stage = "sentiment" =>
                    /\ sOut[i].overallSentiment = "NEUTRAL"
                    /\ sOut[i].confidence < 100

---------------------------------------------------------------------------
(* Degraded results *)

\* the call used mock news or mock prices, or one of its stages returned the
\* default of its catch block
UsedFallback(c) ==
    \/ c.info.mockNews
    \/ c.info.mockPrices
    \/ \E st \in Stages : c.info.stages[st].defaulted

\* the fields of a Verdict that could show a degraded result.  No field of
\* the Verdict flags mock data or a defaulted stage.
Shown(v) ==
    [ confidence_score |-> v.confidence_score,
      risk_assessment  |-> v.risk_assessment ]

\* C21: of two computed calls with the same arguments, one of which used
\* mock news or prices or a stage's default and the other not, the Verdicts
\* differ in confidence_score or in risk_assessment (the Verdict has no flag
\* for a degraded result), the degraded one never showing a higher confidence.
C21_DegradedShown ==
    \A c \in Computed, d \in Computed :
        (c.args = d.args /\ ~UsedFallback(c) /\ UsedFallback(d)) =>
            /\ Shown(c.info.verdict) # Shown(d.info.verdict)
            /\ d.info.verdict.confidence_score <= c.info.verdict.confidence_score

---------------------------------------------------------------------------
(* The WebSocket heartbeat *)

\* connection c is registered and its peer does not answer pings
Silent(c) == c \in DOMAIN connections /\ ~sockets[c].answers

\* no silent connection stays registered for longer than the staleness
\* threshold plus one heartbeat interval
SilenceBounded ==
    \A c \in ConnIds :
        Silent(c) => now - connections[c].lastPing <= StaleAfter + HeartbeatEvery

\* a heartbeat terminates and removes every open silent connection whose
\* silence exceeds the staleness threshold
StaleTerminated ==
    Heartbeat =>
        \A c \in ConnIds :
            (Silent(c) /\ sockets[c].readyState = "OPEN"
                       /\ now - connections[c].lastPing > StaleAfter)
            => (c \notin DOMAIN connections' /\ sockets'[c].terminated
                /\ sockets'[c].readyState = "CLOSED")

\* C23: a connection that never answers a ping is terminated and removed at
\* the first heartbeat at which its silence exceeds the staleness threshold,
\* so it is removed within the threshold plus one heartbeat interval
C23_HeartbeatRemovesSilent ==
    /\ []SilenceBounded
    /\ [][StaleTerminated]_vars
    /\ \A c \in ConnIds : Silent(c) ~> (c \notin DOMAIN connections)

\* a silent connection has been terminated by the heartbeat while another,
\* which answers, is still registered
C23_Witness ==
    \E c \in ConnIds, d \in ConnIds :
        /\ sockets[c].terminated /\ ~sockets[c].answers
        /\ c \notin DOMAIN connections
        /\ d \in DOMAIN connections /\ sockets[d].answers
        /\ now - connections[d].lastPing <= HeartbeatEvery
        /\ now > StaleAfter

---------------------------------------------------------------------------
(* Delivery to removed connections *)

\* connection c was registered and no longer is
Removed(c) == sockets[c].readyState # "NONE" /\ c \notin DOMAIN connections

\* a call of the tool is awaited on connection c
Running(c) == IsSome(inflight[c]) /\ Get(inflight[c]).phase = "running"

\* C24: nothing is delivered to a connection once it is removed, and a call
\* that was in flight when its connection was removed still goes on to its
\* end
C24_NothingAfterRemoval ==
    /\ [](\A c \in ConnIds :
            (Removed(c) /\ Running(c))
            => ENABLED (ExecuteProgress(c) \/ ExecuteSettles(c)))
    /\ [][\A c \in ConnIds : Removed(c) => delivered'[c] = delivered[c]]_vars

\* a streaming call has completed on a connection the heartbeat had
\* terminated, and neither its later progress events nor its result arrived
C24_Witness ==
    \E c \in ConnIds :
        /\ Removed(c) /\ sockets[c].terminated
        /\ IsSome(inflight[c])
        /\ Get(inflight[c]).phase = "completed" /\ Get(inflight[c]).stream
        /\ delivered[c] = <<"welcome", "progress">>

---------------------------------------------------------------------------
(* Subscriptions *)

NoDuplicates(q) == \A i \in 1..Len(q), j \in 1..Len(q) : q[i] = q[j] => i = j

\* no connection's subscriptions hold a topic twice, and a request made
\* twice has the effect of the request made once
SubscriptionsAreSets ==
    \A c \in DOMAIN connections :
        LET s == connections[c].subscriptions
        IN  /\ NoDuplicates(s)
            /\ \A ts \in TopicLists :
                  /\ Subscribed(Subscribed(s, ts), ts) = Subscribed(s, ts)
                  /\ Without(Without(s, ts), ts) = Without(s, ts)

\* a request for topics that are subscribed already, or to drop topics that
\* are not subscribed, changes nothing, and no request changes the
\* subscriptions of another connection
SubscriptionsKept ==
    \A c \in DOMAIN connections, msg \in SubsMessages :
        HandleMessage(c, msg) =>
            LET s  == connections[c].subscriptions
                ts == OrElse(msg.params.topics, <<>>)
            IN  /\ (msg.method = "subscribe" /\ Range(ts) \subseteq Range(s))
                   => connections'[c].subscriptions = s
                /\ (msg.method = "unsubscribe" /\ Range(ts) \cap Range(s) = {})
                   => connections'[c].subscriptions = s
                /\ \A d \in DOMAIN connections \ {c} :
                      /\ d \in DOMAIN connections'
                      /\ connections'[d].subscriptions = connections[d].subscriptions

\* C30: subscribe and unsubscribe keep a connection's subscriptions free of
\* duplicates, change nothing when asked for what already holds, and leave
\* the other connections' subscriptions alone
C30_SubscriptionsIdempotent ==
    []SubscriptionsAreSets /\ [][SubscriptionsKept]_vars

\* two connections, each after MaxRequests requests, with different
\* subscriptions
C30_Witness ==
    \E c \in DOMAIN connections, d \in DOMAIN connections :
        /\ connections[c].subscriptions = <<"prices", "news">>
        /\ connections[d].subscriptions = <<"news">>
        /\ Len(delivered[c]) = MaxRequests + 1
        /\ Len(delivered[d]) = MaxRequests + 1
        /\ "error" \in Range(delivered[d])
---------------------------------------------------------------------------
(* The adapters' replies *)

Answers == { routed[i] : i \in 1..Len(routed) }

\* a request object of version 2.0 that names a method
WellFramed(m) == m.t = "object" /\ m.jsonrpc = "2.0" /\ m.method # Undefined

\* a well-framed call of the tool
ToolCall(m) ==
    WellFramed(m) /\ m.method = "tools/call" /\ m.params.name = ToolName

\* the answers to an array posted to the batch endpoint
BatchAnswers == { r \in Answers : r.via = "batch" /\ r.shape # "rejected" }

\* C25: a batch of n entries is answered with an array of n responses in
\* the order of the entries; an entry that fails has its own error object
\* and the calls of the tool beside it have their results
C25_BatchPerEntry ==
    \A r \in BatchAnswers :
        /\ r.shape = "array"
        /\ Len(r.replies) = Len(r.request)
        /\ \A i \in 1..Len(r.request) :
              /\ ToolCall(r.request[i]) =>
                    r.replies[i] = Result(IdOr(r.request[i].id, TimeId(now)))
              /\ ~WellFramed(r.request[i]) => r.replies[i].kind = "error"

\* answers with one reply per message: those of /mcp, and the arrays of the
\* batch endpoint
PerMessage(vias) ==
    { r \in Answers : r.via \in vias /\ r.shape # "rejected"
                      /\ Len(r.replies) = Len(r.request) }

\* C26: /mcp and the batch endpoint answer a message whose version is not
\* "2.0" or whose method is missing with error -32600 and do not call
\* execute for it
C26_InvalidRequestRejected ==
    \A r \in PerMessage({"mcp", "batch"}) :
        \A i \in 1..Len(r.request) :
            (r.request[i].t = "object" /\ ~WellFramed(r.request[i])) =>
                /\ r.replies[i] = [r.replies[i] EXCEPT !.kind = "error",
                                                       !.code = InvalidRequest]
                /\ r.invoked[i] = None

\* C27: on /mcp, in a batch and on a WebSocket connection an unknown method
\* or tool is answered with -32601, a tools/call without the name of a tool
\* with -32602, and neither with -32603
C27_ErrorCodes ==
    \A r \in PerMessage({"mcp", "batch", "ws"}) :
        \A i \in 1..Len(r.request) :
            LET m == r.request[i]
                code == r.replies[i].code
            IN  WellFramed(m) =>
                  /\ (m.method = "bogus"
                      \/ (m.method = "tools/call" /\ m.params.name = "bogus_tool"))
                     => code = MethodNotFound
                  /\ (m.method = "tools/call" /\ m.params.name = Undefined)
                     => code = InvalidParams
                  /\ code # InternalError

\* no exception escapes an adapter, and every request is answered
NothingEscapes ==
    \A r \in Answers :
        /\ ~r.escaped
        /\ r.via = "batch" \/ Len(r.replies) = 1
        /\ (r.via = "batch" /\ r.shape = "array") => Len(r.replies) = Len(r.request)
        /\ (r.via = "batch" /\ r.shape # "array") => Len(r.replies) = 1

\* C28: every message that is no JSON, no object, or an object without
\* version "2.0" or without a method is answered with an error object, and
\* no exception escapes the adapter
C28_FramingErrors ==
    /\ NothingEscapes
    /\ \A r \in { a \in Answers : a.via \in {"mcp", "batch", "ws"} } :
          \A i \in 1..Len(r.request) :
              ~WellFramed(r.request[i]) =>
                 IF r.shape = "array"
                 THEN r.replies[i].kind = "error"
                 ELSE r.replies[1].kind = "error"

\* C29: a REST body that is the tool arguments themselves has its fields
\* passed to execute, as a tools/call carrying them has
C29_RestArguments ==
    \A r \in Answers, h \in Answers :
        (r.via = "rest" /\ r.body.arguments = None) =>
            /\ r.invoked = <<Some(r.body.fields)>>
            /\ (h.via = "mcp" /\ ToolCall(h.request[1])
                /\ h.request[1].params.arguments = Some(r.body.fields))
               => h.invoked = r.invoked
---------------------------------------------------------------------------
(* Votes of the stages *)

\* no fulfilled stage result carries an overallSentiment
NoVote(f) == \A st \in Fulfilled(f) : f[st].overallSentiment = ""

\* C37: a computed Verdict is BULLISH or BEARISH only if the sentiment-fusion
\* stage fulfilled with that value, and it is NEUTRAL with confidence_score 0
\* when no fulfilled stage result carries an overallSentiment
C37_OnlySentimentVotes ==
    \A c \in Computed :
        LET f == c.info.stages
            v == c.info.verdict
        IN  /\ v.overall_sentiment \in {"BULLISH", "BEARISH"} =>
                  /\ f["sentiment"].status = "fulfilled"
                  /\ f["sentiment"].overallSentiment = v.overall_sentiment
            /\ NoVote(f) =>
                  /\ v.overall_sentiment = "NEUTRAL"
                  /\ v.confidence_score = 0

\* the sentiment-fusion stage rejected while the other four fulfilled, and
\* the Verdict is NEUTRAL with confidence_score 0
C37_Witness ==
    \E c \in Computed :
        /\ c.info.rejected = {"sentiment"}
        /\ c.info.successful = 4
        /\ c.info.verdict.overall_sentiment = "NEUTRAL"
        /\ c.info.verdict.confidence_score = 0

---------------------------------------------------------------------------
(* Ids and outcomes of the adapters' replies *)

\* C38: the reply to a well-framed request that has an id carries that id, on /mcp, in
\* a batch and on a WebSocket connection, for results and for errors
C38_ReplyCarriesId ==
    \A r \in PerMessage({"mcp", "batch", "ws"}) :
        \A i \in 1..Len(r.request) :
            (WellFramed(r.request[i]) /\ IsSome(r.request[i].id)) =>
                r.replies[i].id = Get(r.request[i].id)

\* result or error, with the error code
OutcomeOf(reply) == [kind |-> reply.kind, code |-> reply.code]

\* C39: an entry of a batch has the outcome (result, or error with the same
\* code) that the same well-framed message has when it is posted alone to
\* /mcp
C39_BatchAsSingle ==
    \A r \in Answers, h \in Answers :
        (r.via = "mcp" /\ r.shape = "object" /\ h.via = "batch" /\ h.shape = "array") =>
            \A i \in 1..Len(h.request) :
                (WellFramed(r.request[1]) /\ h.request[i] = r.request[1]) =>
                    OutcomeOf(h.replies[i]) = OutcomeOf(r.replies[1])

---------------------------------------------------------------------------
(* The CacheManager used directly: the latest write, and deletions *)

\* the position of the last completed op among cOps[1..j-1] that satisfies
\* hit, or 0 when there is none
LastBefore(j, hit(_)) ==
    LET S == {i \in 1..(j - 1) : hit(cOps[i])}
    IN  IF S = {} THEN 0 ELSE CHOOSE i \in S : \A h \in S : h <= i

\* the last set of cOps[j]'s key completed before cOps[j]
LatestSet(j) ==
    LET SetOfKey(o) == o.op = "set" /\ o.key = cOps[j].key
    IN  LastBefore(j, SetOfKey)

\* the last del of cOps[j]'s key, or flush, completed before cOps[j]
LatestRemoval(j) ==
    LET RemovalOfKey(o) ==
            \/ o.op = "del" /\ o.key = cOps[j].key
            \/ o.op = "flush"
    IN  LastBefore(j, RemovalOfKey)

\* C35: a get that returns a value returns the value of the most recent
\* completed set of that key, provided that entry has not expired, whatever
\* connect, disconnect and error events of the durable tier came in between.
C35_ReadLatestWrite ==
    \A j \in 1..Len(cOps) :
        LET g == cOps[j]
            i == LatestSet(j)
        IN  (/\ g.op = "get"
             /\ g.tier # "none"
             /\ i > 0
             /\ g.at - cOps[i].at <= cOps[i].ttl)
            => g.value = cOps[i].value

\* C36: after a del of a key or a flush has completed, every get of the key
\* returns null until the key is set again, whatever connect, disconnect and
\* error events of the durable tier came before and after the deletion.
C36_NullAfterRemoval ==
    \A j \in 1..Len(cOps) :
        LET g == cOps[j]
        IN  (/\ g.op = "get"
             /\ LatestRemoval(j) > 0
             /\ LatestSet(j) < LatestRemoval(j))
            => g.tier = "none"

---------------------------------------------------------------------------
(* Overlapping execute() calls *)

\* the positions in runs.events of the events of one kind
EventsOf(what) == {i \in 1..Len(runs.events) : runs.events[i].what = what}

\* both calls are done, they had the same cache key, and each read the cache
\* before either wrote it
Overlapped ==
    /\ \A r \in RunIds : runs.of[r].pc = "done"
    /\ AnalysisKey(runs.of[1].validatedArgs) = AnalysisKey(runs.of[2].validatedArgs)
    /\ \A i \in EventsOf("read"), j \in EventsOf("write") : i < j

\* the call that wrote the cache last
LastWriter ==
    LET W == EventsOf("write")
    IN  runs.events[CHOOSE i \in W : \A j \in W : j <= i].run

\* what a get of the calls' key returns now, if no Redis call throws
SlotNow ==
    CacheGet(memoryCache, redisStore, AnalysisKey(runs.of[1].validatedArgs),
             FALSE, FALSE).value

\* two overlapping identical calls both miss, both run the pipeline, both
\* write, and each returns the Verdict of its own run
BothRun ==
    Overlapped =>
        \A r \in RunIds :
            /\ ~runs.of[r].hit
            /\ runs.of[r].ran
            /\ runs.of[r].wrote # "none"
            /\ runs.of[r].returned = Some(runs.of[r].verdict)

\* the two runs came to different Verdicts
BothRunDiffer ==
    /\ Overlapped
    /\ runs.of[1].verdict # runs.of[2].verdict

\* C31: there is no in-flight deduplication.  Two identical calls of which the
\* second starts before the first has written the cache both miss, both run
\* the pipeline, each returns the Verdict of its own run, both write the same
\* key, and the slot then holds the Verdict of the run that wrote last.
C31_NoInflightDedup ==
    Overlapped =>
        /\ \A r \in RunIds :
              /\ ~runs.of[r].hit
              /\ runs.of[r].ran
              /\ runs.of[r].wrote # "none"
              /\ runs.of[r].returned = Some(runs.of[r].verdict)
        /\ SlotNow = runs.of[LastWriter].verdict

---------------------------------------------------------------------------
(* The STDIO server's output *)

\* C32: every line the STDIO server writes to stdout is a JSON-RPC message;
\* diagnostic logging goes elsewhere, whatever a request makes the server log.
C32_StdoutIsProtocol ==
    \A i \in 1..Len(stdio.stdout) : stdio.stdout[i].kind = "json"

---------------------------------------------------------------------------
(* The HTTP server's API key and protocol flags *)

KeyRequired == IsSome(served.env.REQUIRED_API_KEY)

\* C33: with REQUIRED_API_KEY set, a client that does not present the key
\* causes no tool execution over REST, HTTP JSON-RPC, batch or WebSocket, and
\* reaches nothing but /health, /status and /docs.
C33_KeyEnforced ==
    KeyRequired =>
        \A i \in 1..Len(served.answers) :
            LET a == served.answers[i]
            IN  a.key # served.env.REQUIRED_API_KEY =>
                    /\ ~a.executed
                    /\ a.status # Unauthorized =>
                           a.path \in {"/health", "/status", "/docs"}

\* C34: the REST routes are registered exactly when ENABLE_HTTP_REST is true,
\* and /mcp and /mcp/batch exactly when ENABLE_HTTP_MCP is true, each
\* whatever the other flag is.
C34_FlagsEnableTheirProtocol ==
    served.listening =>
        /\ served.routes \cap RestRoutes =
              IF getBooleanEnv(served.env.ENABLE_HTTP_REST, TRUE)
              THEN RestRoutes ELSE {}
        /\ served.routes \cap McpRoutes =
              IF getBooleanEnv(served.env.ENABLE_HTTP_MCP, TRUE)
              THEN McpRoutes ELSE {}

---------------------------------------------------------------------------
(* The rate limit of the primary price source *)

\* C40: when CoinGecko answers a request with 429, fetchCoinGeckoPrices waits
\* and sends the request once more before it reports failure.
C40_RetryOnceAfter429 ==
    \A i \in 1..Len(gecko) :
        LET c == gecko[i]
        IN  (DOMAIN c.coinIds # {} /\ c.answers[1].status = TooManyRequests) =>
                /\ c.waited = RateLimitPause
                /\ c.requests = 2
                /\ c.answers[2].status = HttpOk => c.outcome = "resolved"
=============================================================================
